---- MODULE Spec2Model ----
(***************************************************************************)
(* Model of the subscription test engine:                                  *)
(*   - TestExecutor.run_single_test (test_engine/executor.py), the         *)
(*     per-test-case orchestration loop, as a state machine (Spec);        *)
(*   - the two time-advance status calculators                             *)
(*     (test_engine/subscription_expectations.py and                       *)
(*     test_engine/user_verifier.py) as operators, exercised over bounded  *)
(*     inputs (SpecCalc).                                                  *)
(*                                                                         *)
(* Conventions.  Python None is modelled by 0 for the optional integers    *)
(* status_code, trial_period_days, plan_code and duration_months: the code *)
(* only tests their truthiness or compares them with non-zero literals.    *)
(* A date string is a record [k, t]: k = "none" (None), "bad" (a string    *)
(* datetime.fromisoformat rejects) or "ok" with instant t in ticks.        *)
(***************************************************************************)
EXTENDS Integers, Sequences, FiniteSets, TLC

\* ---------------------------------------------------------------- bounds
MaxActions == 2
MaxDays == 1
MaxPeriodDays == 2
DayTicks == 1
MaxCalcDays == 2
\* steps of one XRayStepTracker, sub-steps of one step
MaxSteps == 2
MaxSubSteps == 2

\* ------------------------------------------------------ program constants
DefaultTrialPeriodDays == 45

\* ------------------------------------------------------------------ dates
NoDate == [k |-> "none", t |-> 0]
BadDate == [k |-> "bad", t |-> 0]
At(t) == [k |-> "ok", t |-> t]
\* truthiness of an Optional[str]
Truthy(d) == d.k # "none"
\* datetime.fromisoformat(s.replace('Z', '+00:00')) succeeds
Parses(d) == d.k = "ok"
\* timedelta(days=n), in ticks
timedelta(n) == n * DayTicks

\* x or 1
OrOne(x) == IF x = 0 THEN 1 ELSE x

\* --------------------------------------------------- expectation records
Expectation(code, name, check, days, total, sim) ==
    [expected_status_code |-> code, expected_status_name |-> name,
     check_trial_period |-> check, trial_duration_days |-> days,
     total_days_advanced |-> total, simulated_now |-> sim]

\* UserVerifier._calculate_status_after_time_advance(subscription_state,
\* action_result, subscription_config); days is action_result.get('days_advanced', 0)
UserVerifier_calculate_status_after_time_advance(st, days) ==
    LET previous_days_advanced == st.days_advanced
        total_days_advanced == previous_days_advanced + days
        current_status == st.status_code
        is_cancelled == st.is_cancelled
        trial_period_days == st.trial_period_days
        in_trial == trial_period_days # 0 /\ current_status = 3
    IN  IF Truthy(st.start_date) /\ Truthy(st.expire_date)
        THEN IF ~(Parses(st.start_date) /\ Parses(st.expire_date))
             THEN \* except Exception
                  Expectation(1, "active", FALSE, 0, total_days_advanced, NoDate)
             ELSE LET simulated_now == st.start_date.t + timedelta(total_days_advanced)
                      expire_date == st.expire_date.t
                  IN  IF simulated_now >= expire_date
                      THEN IF is_cancelled
                           THEN Expectation(4, "cancelled", FALSE, 0, total_days_advanced, At(simulated_now))
                           ELSE Expectation(1, "active", FALSE, 0, total_days_advanced, At(simulated_now))
                      ELSE IF is_cancelled
                           THEN Expectation(4, "cancelled", in_trial,
                                            IF in_trial THEN trial_period_days ELSE 0,
                                            total_days_advanced, At(simulated_now))
                           ELSE IF in_trial
                           THEN Expectation(3, "trial", TRUE, trial_period_days,
                                            total_days_advanced, At(simulated_now))
                           ELSE Expectation(1, "active", FALSE, 0, total_days_advanced, At(simulated_now))
        ELSE Expectation(OrOne(current_status), "active", FALSE, 0, total_days_advanced, NoDate)

\* SubscriptionExpectations._calculate_status_after_time_advance(subscription_state,
\* subscription_config); has_state is the truthiness of subscription_state
SubscriptionExpectations_calculate_status_after_time_advance(has_state, st) ==
    LET days_advanced == st.days_advanced
        current_status == st.status_code
        is_cancelled == st.is_cancelled
        trial_period_days == st.trial_period_days
        in_trial == trial_period_days # 0 /\ current_status = 3
        Fallback == Expectation(OrOne(current_status), "active", FALSE, 0, days_advanced, NoDate)
    IN  IF ~has_state
        THEN Expectation(1, "active", FALSE, 0, 0, NoDate)
        ELSE IF Truthy(st.start_date) /\ Truthy(st.expire_date)
        THEN IF ~(Parses(st.start_date) /\ Parses(st.expire_date))
             THEN Fallback
             ELSE LET simulated_now == st.start_date.t + timedelta(days_advanced)
                      expire_date == st.expire_date.t
                  IN  IF simulated_now >= expire_date
                      THEN IF is_cancelled
                           THEN Expectation(4, "cancelled", FALSE, 0, days_advanced, At(simulated_now))
                           ELSE Expectation(1, "active", FALSE, 0, days_advanced, At(simulated_now))
                      ELSE IF is_cancelled
                           THEN Expectation(4, "cancelled", FALSE, 0, days_advanced, At(simulated_now))
                           ELSE IF in_trial
                           THEN Expectation(3, "trial", TRUE, trial_period_days,
                                            days_advanced, At(simulated_now))
                           ELSE Expectation(1, "active", FALSE, 0, days_advanced, At(simulated_now))
        ELSE Fallback

\* ------------------------------------------------------------ configuration
\* A plan configuration is a record; an absent key is 0 (numbers), "" (names)
\* or FALSE (supports_trial, whose default is False).
\* self.subscriptions_config.get(subscription_type, {}) for an unknown or missing type
EmptyConfig == [code |-> 0, duration_months |-> 0, duration_days |-> 0,
                supports_trial |-> FALSE, trial_period_days |-> 0,
                expected_status_with_trial |-> 0, expected_status_name_with_trial |-> "",
                expected_status_without_trial |-> 0,
                expected_status_name_without_trial |-> ""]
\* config/subscriptions.json entry of the purchased plan
PlanConfig == [EmptyConfig EXCEPT !.code = 1, !.duration_months = 12,
                                  !.supports_trial = TRUE,
                                  !.trial_period_days = DefaultTrialPeriodDays]

\* dict.get(key, default) on a number and on a name
GetOr(x, default) == IF x = 0 THEN default ELSE x
GetName(x, default) == IF x = "" THEN default ELSE x

\* action_type of the configured actions; "unknown" is an action name that
\* execute_action rejects (not in actions.json, or of an unimplemented type)
ActionTypes == {"purchase", "cancel", "reactivate", "advance_time", "verify", "unknown"}

\* --------------------------------------------------------------- variables
VARIABLES
    pc,                 \* position inside run_single_test
    num_actions,        \* len(actions) of reader.parse_actions(test_case)
    action_name,        \* actions[action_idx - 1]['action'], by its action_type
    idx,                \* action_idx of the loop
    cleanup_arg,        \* history: the cleanup_users argument of TestExecutor.__init__
    cleanup_users,      \* TestExecutor.cleanup_users; only the finally block reads it,
                        \* and its value is drawn there ("unread" until then)
    trial_eligible,     \* _is_trial_eligible(test_case['trial_status'])
    admin_logged_in,    \* TestExecutor.admin_logged_in
    subscription_state, \* the tracked subscription_state dict
    all_actions_passed, \* local all_actions_passed
    result,             \* the result dict
    action_result,      \* action_result of the current action
    verify_result,      \* verify_result of the current action
    executed,           \* history: indices for which execute_action was called
    action_failed,      \* history: an action returned success=False or raised
    action_stopped,     \* history: an action raised or, not being a manual verify,
                        \*          returned success=False
    uv_failed,          \* history: a user verification returned verified=False
    raised,             \* history: an exception was raised outside the admin verification
    admin_trouble,      \* history: "raised" once the admin login or verification raised,
                        \*          else "failed" once an admin verification returned
                        \*          verified=False, else "none"
    cumulative_days,    \* history: sum of the days reported by successful advance_time actions
    original_start,     \* history: start date of the first subscription tracked
    cleanup_outcome,    \* history: what _cleanup_user did
    propagated,         \* history: an exception escaped run_single_test
    calc_pc,            \* calculator harness: position
    calc_has_state,     \* calculator harness: subscription_state is not None
    calc_state,         \* calculator harness: prior subscription state
    calc_days,          \* calculator harness: action_result['days_advanced']
    exp_out,            \* calculator harness: SubscriptionExpectations result
    uv_out,             \* calculator harness: UserVerifier result
    fn_pc,              \* function harness: position
    fn_in,              \* function harness: the function applied and its arguments
    fn_out,             \* function harness: the value returned
    report_pc,          \* which reporting component is exercised ("idle": none)
    update_strategy,    \* XrayApi._update_strategy
    execution_key,      \* XrayApi._execution_key and _auth_token are set
    test_results_cache, \* XrayApi._test_results_cache
    xray_runs,          \* the statuses the XRay service holds for the execution
    last_call,          \* history: the last XrayApi call, what it sent and returned
    steps,              \* XRayStepTracker.steps
    current_step_number,    \* XRayStepTracker.current_step_number
    has_pending_substeps,   \* XRayStepTracker.has_pending_substeps
    xray_test_results,  \* XRayStepTracker.xray_test_results
    summary             \* history: how summarize_results ended

input_vars == <<num_actions, trial_eligible>>
loop_vars == <<pc, action_name, idx, admin_logged_in, subscription_state,
               all_actions_passed, result, action_result, verify_result>>
history_vars == <<cleanup_users, cleanup_arg, executed, action_failed, action_stopped, uv_failed, raised, admin_trouble,
                  cumulative_days, original_start, cleanup_outcome,
                  propagated>>
exec_vars == <<input_vars, loop_vars, history_vars>>
fn_vars == <<fn_pc, fn_in, fn_out>>
xray_vars == <<update_strategy, execution_key, test_results_cache, xray_runs, last_call>>
tracker_vars == <<steps, current_step_number, has_pending_substeps, xray_test_results, summary>>
report_vars == <<report_pc, xray_vars, tracker_vars>>
calc_vars == <<calc_pc, calc_has_state, calc_state, calc_days, exp_out, uv_out, fn_vars,
               report_vars>>
vars == <<exec_vars, calc_vars>>

\* ------------------------------------------------------ reporting: values
\* XRay test keys
TestKeys == {"RQA-1", "RQA-2"}
\* a dict from test keys to statuses, as a function; "absent": no such key
NoResults == [k \in TestKeys |-> "absent"]
\* no XrayApi call yet
NoXrayCall == [op |-> "none", results |-> NoResults, sent |-> NoResults, returned |-> FALSE]
\* the class attributes of XrayApi as the class body sets them
IdleXray ==
    /\ update_strategy = "PASS_WINS"
    /\ execution_key = FALSE
    /\ test_results_cache = NoResults
    /\ xray_runs = NoResults
    /\ last_call = NoXrayCall
\* XRayStepTracker.__init__
IdleTracker ==
    /\ steps = << >>
    /\ current_step_number = 0
    /\ has_pending_substeps = FALSE
    /\ xray_test_results = NoResults
    /\ summary = "none"
\* the reporting components untouched
IdleReports == report_pc = "idle" /\ IdleXray /\ IdleTracker

\* ------------------------------------------------------------ initial values
\* subscription_state = {...} at the start of the action loop
FreshState ==
    [subscription_type |-> "none", plan_code |-> 0, duration_months |-> 0,
     status_code |-> 0, start_date |-> NoDate, expire_date |-> NoDate,
     trial_period_days |-> 0, is_cancelled |-> FALSE, days_advanced |-> 0]

\* result = {...} at the start of run_single_test; error and user_email by whether
\* they are set.  The action_results and verification_results lists are report
\* data that run_single_test only appends to and never reads; they are left out.
FreshResult == [passed |-> FALSE, error |-> FALSE, user_email |-> FALSE]

NoActionResult ==
    [success |-> FALSE, has_subscription_type |-> FALSE, days_advanced |-> 0]

NoExpectation == Expectation(0, "none", FALSE, 0, 0, NoDate)

NoSubscription == [status_code |-> 0, trial_period_days |-> 0,
                   start_date |-> NoDate, expire_date |-> NoDate]

NoVerifyResult ==
    [verified |-> FALSE, has_subscription |-> FALSE, subscription |-> NoSubscription,
     expectation |-> NoExpectation, time_advance |-> FALSE]

\* no function call in progress
NoCall == [fn |-> "none"]

\* ------------------------------------------------------------ action runner
\* possible outcomes of ActionExecutor.execute_action by action type
Outcomes(a) ==
    CASE a = "purchase" -> {"ok", "declined_ok", "fail", "raise"}
      [] a = "cancel" -> {"ok", "fail"}
      [] a = "reactivate" -> {"ok", "fail"}
      [] a = "advance_time" -> {"ok", "fail"}
      [] a = "verify" -> {"ok", "fail", "raise"}
      [] OTHER -> {"raise"}

\* the dict returned by execute_action; d is the operator-confirmed number of days
ActionResult(a, o, d) ==
    [success |-> o \in {"ok", "declined_ok"},
     has_subscription_type |-> (a = "purchase" /\ o = "ok"),
     days_advanced |-> IF a = "advance_time" /\ o = "ok" THEN d ELSE 0]

\* a variant of the state update that overwrites the day count
UpdateStateFromAction_Overwrite(st, a, ar) ==
    IF ~ar.success THEN st
    ELSE CASE a = "cancel" -> [st EXCEPT !.is_cancelled = TRUE]
           [] a = "reactivate" -> [st EXCEPT !.is_cancelled = FALSE]
           [] a = "advance_time" -> [st EXCEPT !.days_advanced = ar.days_advanced]
           [] OTHER -> st

\* a variant of the state update that takes the plan from every successful
\* purchase action, a correctly declined one included
UpdateStateFromAction_AnyPurchase(st, a, ar) ==
    IF ~ar.success THEN st
    ELSE LET st1 == IF a = "purchase"
                    THEN [st EXCEPT !.subscription_type = "1y_premium",
                                    !.plan_code = PlanConfig.code,
                                    !.duration_months = PlanConfig.duration_months]
                    ELSE st
         IN  CASE a = "cancel" -> [st1 EXCEPT !.is_cancelled = TRUE]
               [] a = "reactivate" -> [st1 EXCEPT !.is_cancelled = FALSE]
               [] a = "advance_time" ->
                     [st1 EXCEPT !.days_advanced = st1.days_advanced + ar.days_advanced]
               [] OTHER -> st1

\* a variant of the state update that marks the subscription cancelled by every
\* cancel action, a failed one included
UpdateStateFromAction_CancelAttempt(st, a, ar) ==
    IF a = "cancel" THEN [st EXCEPT !.is_cancelled = TRUE]
    ELSE IF ~ar.success THEN st
    ELSE LET st1 == IF ar.has_subscription_type
                    THEN [st EXCEPT !.subscription_type = "1y_premium",
                                    !.plan_code = PlanConfig.code,
                                    !.duration_months = PlanConfig.duration_months]
                    ELSE st
         IN  CASE a = "reactivate" -> [st1 EXCEPT !.is_cancelled = FALSE]
               [] a = "advance_time" ->
                     [st1 EXCEPT !.days_advanced = st1.days_advanced + ar.days_advanced]
               [] OTHER -> st1

\* "Update subscription state from action results"
UpdateStateFromAction(st, a, ar) ==
    IF ~ar.success THEN st
    ELSE LET st1 == IF ar.has_subscription_type
                    THEN [st EXCEPT !.subscription_type = "1y_premium",
                                    !.plan_code = PlanConfig.code,
                                    !.duration_months = PlanConfig.duration_months]
                    ELSE st
         IN  CASE a = "cancel" -> [st1 EXCEPT !.is_cancelled = TRUE]
               [] a = "reactivate" -> [st1 EXCEPT !.is_cancelled = FALSE]
               [] a = "advance_time" ->
                     [st1 EXCEPT !.days_advanced = st1.days_advanced + ar.days_advanced]
               [] OTHER -> st1

\* ------------------------------------------------------------ user verifier
\* responses of mlm_api.get_subscriptions() as seen by _verify_subscription_status:
\* an exception, no active subscription, or the selected subscription; other_issues
\* stands for the outcome of the plan-code and wall-clock date checks
\* (start_date, expire_date) of the selected subscription: two start instants
\* (a first period and a renewed one); a period that any advance outlasts and
\* one of MaxPeriodDays days and a tick
BackendStarts == {0, 1}
BackendPeriods == {<<At(s), At(s + timedelta(n) + 1)>> :
                       s \in BackendStarts, n \in {0, MaxPeriodDays}}
NoResponse == [kind |-> "none", status |-> 0, trial |-> 0, start |-> NoDate,
               expire |-> NoDate, other_issues |-> FALSE]
BackendResponses ==
    {[NoResponse EXCEPT !.kind = "error"], NoResponse}
    \cup
    {[kind |-> "sub", status |-> s, trial |-> tr, start |-> p[1], expire |-> p[2],
      other_issues |-> oi] :
        s \in {1, 3, 4}, tr \in {0, DefaultTrialPeriodDays},
        p \in BackendPeriods, oi \in BOOLEAN}

\* verify_from_user_api, "elif action_type == 'reactivate'"
ReactivateExpectation(cfg, eligible) ==
    IF cfg.supports_trial /\ eligible
    THEN Expectation(3, "trial", TRUE,
                     GetOr(cfg.trial_period_days, DefaultTrialPeriodDays), 0, NoDate)
    ELSE Expectation(1, "active", FALSE, 0, 0, NoDate)

\* a variant that expects a trial whenever the plan supports one
PurchaseExpectation_IgnoreEligibility(cfg, eligible) ==
    IF cfg.supports_trial
    THEN Expectation(GetOr(cfg.expected_status_with_trial, 3),
                     GetName(cfg.expected_status_name_with_trial, "trial"), TRUE,
                     GetOr(cfg.trial_period_days, DefaultTrialPeriodDays), 0, NoDate)
    ELSE Expectation(GetOr(cfg.expected_status_without_trial, 1),
                     GetName(cfg.expected_status_name_without_trial, "active"),
                     FALSE, 0, 0, NoDate)

\* the "REACTIVATE or PURCHASE" rule of calculate_expected_status, and the final
\* else branch ("Regular purchase actions") of verify_from_user_api
PurchaseExpectation(cfg, eligible) ==
    IF cfg.supports_trial /\ eligible
    THEN Expectation(GetOr(cfg.expected_status_with_trial, 3),
                     GetName(cfg.expected_status_name_with_trial, "trial"), TRUE,
                     GetOr(cfg.trial_period_days, DefaultTrialPeriodDays), 0, NoDate)
    ELSE Expectation(GetOr(cfg.expected_status_without_trial, 1),
                     GetName(cfg.expected_status_name_without_trial, "active"),
                     FALSE, 0, 0, NoDate)

\* the expectation verify_from_user_api derives for an action of type a
UserVerifier_expected_status(a, st, days, cfg, eligible) ==
    CASE a = "cancel" -> Expectation(4, "cancelled", FALSE, 0, 0, NoDate)
      [] a = "advance_time" -> UserVerifier_calculate_status_after_time_advance(st, days)
      [] a = "reactivate" -> ReactivateExpectation(cfg, eligible)
      [] OTHER -> PurchaseExpectation(cfg, eligible)

\* a variant without the refund rule
calculate_expected_status_NoRefund(a, has_state, st, cfg, eligible) ==
    CASE a = "cancel" -> Expectation(4, "cancelled", FALSE, 0, 0, NoDate)
      [] a = "advance_time" ->
            SubscriptionExpectations_calculate_status_after_time_advance(has_state, st)
      [] OTHER -> PurchaseExpectation(cfg, eligible)

\* SubscriptionExpectations.calculate_expected_status
calculate_expected_status(a, has_state, st, cfg, eligible) ==
    CASE a = "cancel" -> Expectation(4, "cancelled", FALSE, 0, 0, NoDate)
      [] a = "refund" -> Expectation(5, "refunded", FALSE, 0, 0, NoDate)
      [] a = "advance_time" ->
            SubscriptionExpectations_calculate_status_after_time_advance(has_state, st)
      [] OTHER -> PurchaseExpectation(cfg, eligible)

\* UserVerifier._verify_subscription_status
verify_subscription_status(e, b, time_advance) ==
    IF b.kind # "sub"
    THEN [verified |-> FALSE, has_subscription |-> FALSE, subscription |-> NoSubscription,
          expectation |-> e, time_advance |-> time_advance]
    ELSE LET status_issue == b.status # e.expected_status_code
             trial_issue ==
                 IF e.check_trial_period /\ e.trial_duration_days # 0
                 THEN b.trial # e.trial_duration_days
                 ELSE ~e.check_trial_period /\ b.trial # 0 /\ b.status # 4
         IN  [verified |-> ~(status_issue \/ trial_issue \/ b.other_issues),
              has_subscription |-> TRUE,
              subscription |-> [status_code |-> b.status, trial_period_days |-> b.trial,
                                start_date |-> b.start, expire_date |-> b.expire],
              expectation |-> e, time_advance |-> time_advance]

\* UserVerifier.verify_from_user_api; check_status is the action's
\* verification.check_subscription_status setting
verify_from_user_api(a, ar, st, eligible, check_status, b) ==
    IF ~ar.success
    THEN [NoVerifyResult EXCEPT !.verified = FALSE]
    ELSE IF ~check_status
    THEN [NoVerifyResult EXCEPT !.verified = TRUE]
    ELSE LET cfg == IF a \in {"cancel", "reactivate", "advance_time"}
                       /\ st.subscription_type # "none"
                    THEN PlanConfig
                    ELSE IF a = "purchase" THEN PlanConfig ELSE EmptyConfig
             e == UserVerifier_expected_status(a, st, ar.days_advanced, cfg, eligible)
         IN  verify_subscription_status(e, b, a = "advance_time")

\* "Update subscription state from verification result"
UpdateStateFromVerification(st, vr) ==
    IF vr.has_subscription
    THEN [st EXCEPT !.status_code = vr.subscription.status_code,
                    !.start_date = vr.subscription.start_date,
                    !.expire_date = vr.subscription.expire_date,
                    !.trial_period_days =
                        IF vr.subscription.trial_period_days # 0
                        THEN vr.subscription.trial_period_days
                        ELSE st.trial_period_days]
    ELSE st

\* ------------------------------------------------------------- orchestrator
\* where the loop goes after the action at index i
AfterAction(i) == IF i < num_actions THEN "loop" ELSE "finish"

\* a variant of the control flow in which a failed action does not stop the loop
AfterExecute_NoStop(a, ar, i) ==
    IF a = "verify" \/ ~ar.success
    THEN [pc |-> AfterAction(i), idx |-> i + 1]
    ELSE [pc |-> "user_verify", idx |-> i]

\* control flow after execute_action returned ar: the manual-verify "continue",
\* the "break" on a failed action, otherwise on to the verifications
AfterExecute(a, ar, i) ==
    IF a = "verify"
    THEN [pc |-> AfterAction(i), idx |-> i + 1]
    ELSE IF ~ar.success
    THEN [pc |-> "finish", idx |-> i]
    ELSE [pc |-> "user_verify", idx |-> i]

\* a variant in which the success flag of an action is not read
AfterActionResult_Ignored(passed, ar) == passed

\* all_actions_passed after execute_action returned ar
AfterActionResult(passed, ar) == passed /\ ar.success

\* a variant in which a failed user-side verification is only logged
AfterUserVerify_Ignored(passed, vr) == passed

\* all_actions_passed after the user-side verification
AfterUserVerify(passed, vr) == passed /\ vr.verified

\* a variant in which a failed admin-side verification fails the test case
AfterAdminVerify_Blocking(passed, o) == passed /\ o = "verified"

\* a variant in which a failed admin-side verification of a test case that
\* found the admin session already open fails the test case
AfterAdminVerify_FailedBlocks(passed, o) == passed /\ o # "failed"

\* all_actions_passed after the admin-side verification; o is its outcome
AfterAdminVerify(passed, o) == passed

\* values of the cleanup_users argument: the three valid modes and one that
\* is none of them
CleanupArgs == {"always", "passed", "never", "sometimes"}

\* a variant of the constructor that keeps the argument as it is
validate_cleanup_mode_Unchecked(arg) == arg

\* TestExecutor.__init__, "Validate cleanup mode": self.cleanup_users
validate_cleanup_mode(arg) ==
    IF arg \notin {"never", "passed", "always"} THEN "passed" ELSE arg

\* the finally block, "Smart cleanup based on mode and test result": whether
\* _cleanup_user is called
should_cleanup(mode, user_email, passed) ==
    /\ user_email
    /\ CASE mode = "always" -> TRUE
         [] mode = "passed" /\ passed -> TRUE
         [] mode = "never" -> FALSE
         [] OTHER -> FALSE

\* a variant of _cleanup_user without its try/except
cleanup_user_Unguarded(o) == IF o = "api_failure" THEN "kept" ELSE o

\* TestExecutor._cleanup_user: what the caller observes for each outcome of
\* mlm_api.delete_user_account()
cleanup_user(o) == IF o = "deleted" THEN "deleted" ELSE "kept"

Init ==
    /\ IdleReports
    /\ pc = "start"
    /\ num_actions \in 0..MaxActions
    /\ action_name = "none"
    /\ idx = 0
    /\ cleanup_users = "unread"
    /\ cleanup_arg = "unread"
    /\ trial_eligible \in BOOLEAN
    /\ admin_logged_in = FALSE
    /\ subscription_state = FreshState
    /\ all_actions_passed = TRUE
    /\ result = FreshResult
    /\ action_result = NoActionResult
    /\ verify_result = NoVerifyResult
    /\ executed = {}
    /\ action_failed = FALSE
    /\ action_stopped = FALSE
    /\ uv_failed = FALSE
    /\ raised = FALSE
    /\ admin_trouble = "none"
    /\ cumulative_days = 0
    /\ original_start = NoDate
    /\ cleanup_outcome = "none"
    /\ propagated = FALSE
    /\ calc_pc = "idle"
    /\ calc_has_state = FALSE
    /\ calc_state = FreshState
    /\ calc_days = 0
    /\ exp_out = NoExpectation
    /\ uv_out = NoExpectation
    /\ fn_pc = "idle"
    /\ fn_in = NoCall
    /\ fn_out = NoCall

\* Step 1 and the start of step 2: _setup_user, construction of the action
\* executor and verifiers, parse_actions, the fresh subscription_state
SetupUser ==
    /\ pc = "start"
    /\ \E o \in {"ok", "setup_raise", "init_raise"} :
         LET fails == o # "ok" \/ num_actions = 0
         IN  /\ result' = [result EXCEPT !.user_email = (o # "setup_raise"),
                                         !.error = fails,
                                         !.passed = FALSE]
             /\ raised' = fails
             /\ pc' = IF fails THEN "finally" ELSE "loop"
             /\ idx' = IF fails THEN idx ELSE 1
    /\ all_actions_passed' = TRUE
    /\ subscription_state' = FreshState
    /\ UNCHANGED <<input_vars, action_name, admin_logged_in, action_result, verify_result,
                   executed, action_failed, action_stopped, uv_failed, admin_trouble, cumulative_days, original_start, cleanup_users, cleanup_arg, cleanup_outcome,
                   propagated, calc_vars>>

\* One loop iteration up to the user verification: execute_action, the state
\* update, the manual-verify branch and the stop on a failed or raising action
ExecuteAction ==
    /\ pc = "loop"
    /\ \E a \in ActionTypes : \E o \in Outcomes(a) :
       \E d \in IF a = "advance_time" /\ o = "ok" THEN 1..MaxDays ELSE {1} :
         LET ar == ActionResult(a, o, d)
             next == AfterExecute(a, ar, idx)
         IN  /\ action_name' = a
             /\ executed' = executed \cup {idx}
             /\ IF o = "raise"
                THEN \* "except Exception as action_error"
                     /\ all_actions_passed' = FALSE
                     /\ raised' = TRUE
                     /\ action_failed' = TRUE
                     /\ action_stopped' = TRUE
                     /\ pc' = "finish"
                     /\ action_result' = NoActionResult
                     /\ UNCHANGED <<idx, subscription_state, cumulative_days>>
                ELSE /\ action_result' = ar
                     /\ subscription_state' = UpdateStateFromAction(subscription_state, a, ar)
                     /\ cumulative_days' = cumulative_days + ar.days_advanced
                     /\ action_failed' = (action_failed \/ ~ar.success)
                     /\ action_stopped' = (action_stopped \/ (~ar.success /\ a # "verify"))
                     /\ raised' = raised
                     /\ all_actions_passed' = AfterActionResult(all_actions_passed, ar)
                     /\ idx' = next.idx
                     /\ pc' = next.pc
    /\ UNCHANGED <<input_vars, admin_logged_in, result, verify_result, uv_failed,
                   admin_trouble, original_start, cleanup_users, cleanup_arg, cleanup_outcome, propagated,
                   calc_vars>>

\* Re-login and the user-side verification of the current action
VerifyUser ==
    /\ pc = "user_verify"
    /\ \/ \* the re-login or the verifier raises: "except Exception as action_error"
          /\ all_actions_passed' = FALSE
          /\ raised' = TRUE
          /\ pc' = "finish"
          /\ UNCHANGED <<subscription_state, verify_result, uv_failed, original_start>>
       \/ \E check_status \in BOOLEAN :
          \E b \in IF check_status THEN BackendResponses ELSE {NoResponse} :
            LET vr == verify_from_user_api(action_name, action_result, subscription_state,
                                           trial_eligible, check_status, b)
            IN  /\ verify_result' = vr
                /\ subscription_state' = UpdateStateFromVerification(subscription_state, vr)
                /\ original_start' = IF original_start = NoDate /\ vr.has_subscription
                                     THEN vr.subscription.start_date
                                     ELSE original_start
                /\ all_actions_passed' = AfterUserVerify(all_actions_passed, vr)
                /\ uv_failed' = (uv_failed \/ ~vr.verified)
                /\ raised' = raised
                /\ pc' = "admin_verify"
    /\ UNCHANGED <<input_vars, action_name, idx, admin_logged_in, result, action_result,
                   executed, action_failed, action_stopped, admin_trouble,
                   cumulative_days, cleanup_users, cleanup_arg, cleanup_outcome, propagated, calc_vars>>

\* Admin login when needed and the admin-side verification of the current
\* action; the end of the loop body
VerifyAdmin ==
    /\ pc = "admin_verify"
    /\ \E creds \in IF admin_logged_in THEN {TRUE} ELSE BOOLEAN :
       \E login \in IF ~admin_logged_in /\ creds THEN {"ok", "fail", "raise"} ELSE {"ok"} :
       \E o \in IF admin_logged_in \/ (creds /\ login = "ok")
                THEN {"verified", "failed", "raise"} ELSE {"verified"} :
         LET tries_login == ~admin_logged_in /\ creds
             logged == admin_logged_in \/ (tries_login /\ login = "ok")
         IN  /\ admin_logged_in' = logged
             /\ admin_trouble' =
                    IF (tries_login /\ login = "raise") \/ (logged /\ o = "raise")
                    THEN "raised"
                    ELSE IF logged /\ o = "failed" /\ admin_trouble = "none"
                    THEN "failed"
                    ELSE admin_trouble
             /\ all_actions_passed' =
                    IF logged THEN AfterAdminVerify(all_actions_passed, o)
                    ELSE all_actions_passed
    /\ idx' = idx + 1
    /\ pc' = AfterAction(idx)
    /\ action_result' = NoActionResult
    /\ verify_result' = NoVerifyResult
    /\ UNCHANGED <<input_vars, action_name, subscription_state, result, executed,
                   action_failed, action_stopped, uv_failed, raised, cumulative_days,
                   original_start, cleanup_users, cleanup_arg, cleanup_outcome, propagated, calc_vars>>

\* "Mark test as passed if all actions passed"; the locals of the last
\* iteration are not read again
Finish ==
    /\ pc = "finish"
    /\ result' = [result EXCEPT !.passed = all_actions_passed]
    /\ pc' = "finally"
    /\ action_name' = "none"
    /\ idx' = 0
    /\ action_result' = NoActionResult
    /\ verify_result' = NoVerifyResult
    /\ UNCHANGED <<input_vars, subscription_state, cumulative_days, original_start,
                   admin_logged_in, all_actions_passed, executed,
                   action_failed, action_stopped, uv_failed, raised, admin_trouble,
                   cleanup_users, cleanup_arg, cleanup_outcome, propagated, calc_vars>>

\* the finally block: the cleanup decision, _cleanup_user, return result
Finally ==
    /\ pc = "finally"
    /\ \E arg \in CleanupArgs, o \in {"deleted", "api_failure", "raise"} :
         LET mode == validate_cleanup_mode(arg)
             cleanup == should_cleanup(mode, result.user_email, result.passed)
         IN  /\ cleanup_arg' = arg
             /\ cleanup_users' = mode
             /\ cleanup_outcome' = IF cleanup THEN o ELSE "skipped"
             /\ propagated' = (cleanup /\ cleanup_user(o) = "raise")
    /\ pc' = "done"
    /\ UNCHANGED <<input_vars, action_name, idx, admin_logged_in, subscription_state,
                   all_actions_passed, result, action_result, verify_result, executed,
                   action_failed, action_stopped, uv_failed, raised, admin_trouble,
                   cumulative_days, original_start, calc_vars>>

Next == SetupUser \/ ExecuteAction \/ VerifyUser \/ VerifyAdmin \/ Finish \/ Finally

Spec == Init /\ [][Next]_vars

\* ----------------------------------------------------------------- batches
\* run_tests_from_file: "for idx, test_case in enumerate(test_cases, start=1)"
\* calls run_single_test for the next test case on the same TestExecutor.  The
\* locals and the result of the finished call are gone; the attribute
\* admin_logged_in of the executor stays as the finished test case left it.
NextTestCase ==
    /\ pc = "done"
    /\ pc' = "start"
    /\ num_actions' \in 0..MaxActions
    /\ trial_eligible' \in BOOLEAN
    /\ action_name' = "none"
    /\ idx' = 0
    /\ cleanup_users' = "unread"
    /\ cleanup_arg' = "unread"
    /\ subscription_state' = FreshState
    /\ all_actions_passed' = TRUE
    /\ result' = FreshResult
    /\ action_result' = NoActionResult
    /\ verify_result' = NoVerifyResult
    /\ executed' = {}
    /\ action_failed' = FALSE
    /\ action_stopped' = FALSE
    /\ uv_failed' = FALSE
    /\ raised' = FALSE
    /\ admin_trouble' = "none"
    /\ cumulative_days' = 0
    /\ original_start' = NoDate
    /\ cleanup_outcome' = "none"
    /\ propagated' = FALSE
    /\ UNCHANGED <<admin_logged_in, calc_vars>>

NextBatch ==
    \/ SetupUser
    \/ ExecuteAction
    \/ VerifyUser
    \/ VerifyAdmin
    \/ Finish
    \/ Finally
    \/ NextTestCase

SpecBatch == Init /\ [][NextBatch]_vars

\* ------------------------------------------------- calculator harness
\* status_code values: None (0), active, expired, trial, cancelled
StatusCodes == {0, 1, 2, 3, 4}

\* number of days around the end of a trial of DefaultTrialPeriodDays days
TrialBoundaryDays ==
    {DefaultTrialPeriodDays - 1, DefaultTrialPeriodDays, DefaultTrialPeriodDays + 1}

CalcStarts == {NoDate, BadDate, At(0), At(1)}

CalcExpires ==
    {NoDate, BadDate}
    \cup {At(t) : t \in 0..(timedelta(MaxCalcDays) + 1)}
    \cup {At(s + timedelta(DefaultTrialPeriodDays)) : s \in {0, 1}}

\* prior subscription states handed to the calculators
CalcStates ==
    {[FreshState EXCEPT !.status_code = s, !.is_cancelled = c, !.trial_period_days = tr,
                        !.start_date = sd, !.expire_date = ed, !.days_advanced = n] :
        s \in StatusCodes, c \in BOOLEAN, tr \in {0, DefaultTrialPeriodDays},
        sd \in CalcStarts, ed \in CalcExpires,
        n \in (0..MaxCalcDays) \cup TrialBoundaryDays}

InitCalc ==
    /\ IdleReports
    /\ pc = "calc"
    /\ num_actions = 0
    /\ action_name = "none"
    /\ idx = 0
    /\ cleanup_users = "unread"
    /\ cleanup_arg = "unread"
    /\ trial_eligible = FALSE
    /\ admin_logged_in = FALSE
    /\ subscription_state = FreshState
    /\ all_actions_passed = TRUE
    /\ result = FreshResult
    /\ action_result = NoActionResult
    /\ verify_result = NoVerifyResult
    /\ executed = {}
    /\ action_failed = FALSE
    /\ action_stopped = FALSE
    /\ uv_failed = FALSE
    /\ raised = FALSE
    /\ admin_trouble = "none"
    /\ cumulative_days = 0
    /\ original_start = NoDate
    /\ cleanup_outcome = "none"
    /\ propagated = FALSE
    /\ calc_pc = "input"
    /\ calc_has_state \in BOOLEAN
    /\ calc_state \in CalcStates
    /\ calc_days \in 0..1
    /\ exp_out = NoExpectation
    /\ uv_out = NoExpectation
    /\ fn_pc = "idle"
    /\ fn_in = NoCall
    /\ fn_out = NoCall

\* SubscriptionExpectations._calculate_status_after_time_advance on the drawn state
CalcExpectations ==
    /\ calc_pc = "input"
    /\ exp_out' = SubscriptionExpectations_calculate_status_after_time_advance(
                      calc_has_state, calc_state)
    /\ calc_pc' = "exp_done"
    /\ UNCHANGED <<exec_vars, calc_has_state, calc_state, calc_days, uv_out, fn_vars, report_vars>>

\* UserVerifier._calculate_status_after_time_advance on the same state
CalcUserVerifier ==
    /\ calc_pc = "exp_done"
    /\ uv_out' = UserVerifier_calculate_status_after_time_advance(calc_state, calc_days)
    /\ calc_pc' = "done"
    /\ UNCHANGED <<exec_vars, calc_has_state, calc_state, calc_days, exp_out, fn_vars, report_vars>>

NextCalc == CalcExpectations \/ CalcUserVerifier

SpecCalc == InitCalc /\ [][NextCalc]_vars

\* ------------------------------------------------------------------ claims
\* C1 as stated: once an action returned success=False or raised, no later
\* action of the test case is executed, whatever the action's type.
C1_HaltOnAnyFailedAction ==
    [][action_failed => executed' = executed]_vars

\* C1, amended: once an action raised, or an action other than a manual verify
\* returned success=False, no later action is executed; any failed or raising
\* action (a manual verify included) leaves the test case reported passed=False.
C1_HaltOnFailedAction ==
    [][/\ action_stopped => executed' = executed
       /\ (action_failed' /\ pc' = "done") => ~result'.passed]_vars

\* C1 witness: an action failed, the loop stopped and a later action was never run
C1_Witness ==
    /\ pc = "done"
    /\ action_stopped
    /\ ~raised
    /\ Cardinality(executed) < num_actions

\* C2 as stated: after a user-side verification returned verified=False no later
\* action is executed and the test case is reported passed=False.
C2_HaltOnUserVerificationFailure ==
    [][/\ uv_failed => executed' = executed
       /\ (uv_failed' /\ pc' = "done") => ~result'.passed]_vars

\* C2, amended: a test case in which a user-side verification returned
\* verified=False is reported passed=False (its later actions still run).
C2_UserVerificationFailureFails ==
    (uv_failed /\ pc = "done") => ~result.passed

\* C2 witness: the only thing that went wrong was a user-side verification
C2_Witness ==
    /\ pc = "done"
    /\ uv_failed
    /\ ~action_failed
    /\ ~raised
    /\ ~result.passed

\* C3: the admin-side step never stops the loop (it always moves on to the next
\* action, executing nothing itself) and the outcome is decided by the actions
\* and user-side verifications alone: passed exactly when none of them failed
\* or raised, whatever the admin login and verification did.
C3_AdminNonBlocking ==
    [][/\ pc = "admin_verify" =>
              /\ pc' = AfterAction(idx)
              /\ idx' = idx + 1
              /\ executed' = executed
              /\ subscription_state' = subscription_state
       /\ pc' = "done" =>
              (result'.passed <=> ~(action_failed' \/ uv_failed' \/ raised'))]_vars

\* C3 witness: the admin side raised, every action was still run and the case passed
C3_Witness ==
    /\ pc = "done"
    /\ admin_trouble = "raised"
    /\ num_actions > 1
    /\ executed = 1..num_actions
    /\ result.passed

\* C4 as stated: no exception leaves run_single_test, and the result has
\* passed=False if anything before cleanup raised, the admin side included.
C4_NoExceptionAnyRaiseFails ==
    pc = "done" =>
        /\ ~propagated
        /\ (raised \/ admin_trouble = "raised") => ~result.passed

\* C4, amended: no exception leaves run_single_test, and the result has
\* passed=False if anything before cleanup raised other than the admin login
\* or admin verification.
C4_NoExceptionRaiseFails ==
    pc = "done" =>
        /\ ~propagated
        /\ raised => ~result.passed

\* C4 witness: something raised before cleanup and the cleanup raised as well
C4_Witness ==
    /\ pc = "done"
    /\ raised
    /\ cleanup_outcome = "raise"
    /\ ~propagated
    /\ ~result.passed

\* C5: days_advanced is 0 when the action loop starts; it changes only in the
\* step of a successful advance_time action, which adds the positive number of
\* days that action reported; it never decreases.
C5_DaysAdvancedMonotone ==
    [][/\ pc = "start" => subscription_state'.days_advanced = 0
       /\ subscription_state'.days_advanced # subscription_state.days_advanced =>
              /\ pc = "loop"
              /\ action_name' = "advance_time"
              /\ action_result'.success
       /\ (pc = "loop" /\ action_name' = "advance_time" /\ action_result'.success) =>
              /\ action_result'.days_advanced > 0
              /\ subscription_state'.days_advanced =
                     subscription_state.days_advanced + action_result'.days_advanced
       /\ subscription_state'.days_advanced >= subscription_state.days_advanced]_vars

\* C5 witness: two successful advance_time actions have accumulated
C5_Witness ==
    /\ pc = "user_verify"
    /\ action_name = "advance_time"
    /\ subscription_state.days_advanced > action_result.days_advanced
    /\ action_result.days_advanced > 0

\* the tracked plan of a subscription state
TrackedPlan(st) == <<st.subscription_type, st.plan_code, st.duration_months>>

C31_CancelledFollowsLastCancelOrReactivate ==
    [][/\ pc = "start" => ~subscription_state'.is_cancelled
       /\ (pc = "loop" /\ action_name' = "cancel" /\ action_result'.success) =>
              subscription_state'.is_cancelled
       /\ (pc = "loop" /\ action_name' = "reactivate" /\ action_result'.success) =>
              ~subscription_state'.is_cancelled
       /\ (pc # "start" /\ ~(/\ pc = "loop"
                              /\ action_name' \in {"cancel", "reactivate"}
                              /\ action_result'.success)) =>
              subscription_state'.is_cancelled = subscription_state.is_cancelled]_vars

\* C31 witness: a reactivate that failed after a successful cancel, the flag
\* still set
C31_Witness ==
    /\ pc = "finish"
    /\ action_name = "reactivate"
    /\ ~action_result.success
    /\ ~raised
    /\ subscription_state.is_cancelled

\* C32 as stated: the reported result is passed=True exactly when no exception
\* occurred anywhere before cleanup, every executed action returned success=True
\* and every user-side verification returned verified=True.
C32_PassedIffNothingFailedOrRaised ==
    pc = "done" =>
        (result.passed <=>
             ~(raised \/ admin_trouble = "raised" \/ action_failed \/ uv_failed))

\* C32, amended: the reported result is passed=True exactly when no exception
\* occurred outside the admin login and admin verification, every executed
\* action (manual verify included) returned success=True and every user-side
\* verification returned verified=True; in particular a test case with a failed
\* user-side verification is never reported as passed.
C32_PassedIffNothingFailedOrRaisedOutsideAdmin ==
    pc = "done" =>
        /\ result.passed <=> (~raised /\ ~action_failed /\ ~uv_failed)
        /\ uv_failed => ~result.passed

\* C32 witness: a test case reported as passed and cleaned up although the
\* admin side raised
C32_Witness ==
    /\ pc = "done"
    /\ result.passed
    /\ admin_trouble = "raised"
    /\ cleanup_outcome = "deleted"
    /\ ~action_failed
    /\ ~uv_failed

C36_DeletedExactlyByMode ==
    (pc = "done" /\ result.user_email) =>
        (cleanup_outcome = "deleted" <=>
            \/ cleanup_arg = "always"
            \/ cleanup_arg \notin {"always", "never"} /\ result.passed)

\* C36, amended: after a test case for which a user was set up the deletion of
\* the account is requested (_cleanup_user is called) exactly when the mode is
\* 'always', or 'passed' with a passed test case; an unrecognised mode counts
\* as 'passed'; the account is deleted only when the deletion was requested, so
\* never in mode 'never', and it is kept when the request fails.  Without a
\* user nothing is requested.
C36_DeletionRequestedExactlyByMode ==
    pc = "done" =>
        /\ result.user_email =>
               (cleanup_outcome # "skipped" <=>
                   \/ cleanup_arg = "always"
                   \/ cleanup_arg \notin {"always", "never"} /\ result.passed)
        /\ ~result.user_email => cleanup_outcome = "skipped"
        /\ cleanup_arg = "never" => cleanup_outcome # "deleted"
        /\ cleanup_users = (IF cleanup_arg = "sometimes" THEN "passed" ELSE cleanup_arg)

\* C36 witness: a passed test case under an unrecognised mode whose user is deleted
C36_Witness ==
    /\ pc = "done"
    /\ cleanup_arg = "sometimes"
    /\ result.user_email
    /\ result.passed
    /\ cleanup_outcome = "deleted"

\* C6 as stated: the simulated instant of every advance_time verification is
\* the start date of the first subscription tracked plus the cumulative days
\* advanced.
C6_SimulatedFromOriginalStart ==
    (/\ pc = "admin_verify"
     /\ verify_result.time_advance
     /\ Parses(verify_result.expectation.simulated_now)) =>
        /\ Parses(original_start)
        /\ verify_result.expectation.simulated_now.t =
               original_start.t + timedelta(cumulative_days)

\* C7 as stated: the advance_time verification uses a cumulative offset of
\* exactly D + d days, the days accumulated before plus the days just advanced.
C7_EachAdvanceCountedOnce ==
    (pc = "admin_verify" /\ verify_result.time_advance) =>
        verify_result.expectation.total_days_advanced = cumulative_days

\* C8 as stated: for every prior state with is_cancelled=True both calculators
\* return expected status 4.
C8_CancellationDominance ==
    (calc_pc = "done" /\ calc_state.is_cancelled) =>
        /\ calc_has_state => exp_out.expected_status_code = 4
        /\ uv_out.expected_status_code = 4

\* C9 as stated: for a non-cancelled prior state with status 3, start S and
\* expire E, the expected status is 1 exactly when S + days >= E and 3 otherwise.
C9_TrialBoundary ==
    (/\ calc_pc = "done"
     /\ calc_state.status_code = 3
     /\ ~calc_state.is_cancelled
     /\ Parses(calc_state.start_date)
     /\ Parses(calc_state.expire_date)) =>
        /\ calc_has_state =>
               exp_out.expected_status_code =
                   IF calc_state.start_date.t + timedelta(calc_state.days_advanced)
                          >= calc_state.expire_date.t
                   THEN 1 ELSE 3
        /\ uv_out.expected_status_code =
               IF calc_state.start_date.t
                      + timedelta(calc_state.days_advanced + calc_days)
                      >= calc_state.expire_date.t
               THEN 1 ELSE 3

\* C10 as stated: when start_date + days_advanced < expire_date the expected
\* status code equals the prior status code, for every prior status.
C10_StatusUnchangedBeforeExpiry ==
    (/\ calc_pc = "done"
     /\ Parses(calc_state.start_date)
     /\ Parses(calc_state.expire_date)) =>
        /\ (/\ calc_has_state
            /\ calc_state.start_date.t + timedelta(calc_state.days_advanced)
                   < calc_state.expire_date.t) =>
               exp_out.expected_status_code = calc_state.status_code
        /\ (calc_state.start_date.t + timedelta(calc_state.days_advanced + calc_days)
                < calc_state.expire_date.t) =>
               uv_out.expected_status_code = calc_state.status_code

\* C34 as stated: on the same prior state and the same cumulative days advanced
\* (no further days reported by the action) the two time-advance calculators
\* return the same expected status code, check_trial_period and trial_duration_days.
C34_CalculatorsAgree ==
    (calc_pc = "done" /\ calc_has_state /\ calc_days = 0) =>
        /\ exp_out.expected_status_code = uv_out.expected_status_code
        /\ exp_out.check_trial_period = uv_out.check_trial_period
        /\ exp_out.trial_duration_days = uv_out.trial_duration_days

\* the name the calculators give to a status code
StatusName(code) ==
    CASE code = 1 -> "active"
      [] code = 3 -> "trial"
      [] code = 4 -> "cancelled"
      [] code = 5 -> "refunded"
      [] OTHER -> "unnamed"

\* an expectation whose name is the name of its code and whose trial check
\* comes only with status 3 and a trial duration
WellFormedExpectation(e) ==
    /\ e.expected_status_name = StatusName(e.expected_status_code)
    /\ e.check_trial_period => (e.expected_status_code = 3 /\ e.trial_duration_days # 0)

\* C35 as stated: every expectation of the time-advance calculators pairs the
\* status code with its own name and has check_trial_period=True only together
\* with status 3 and a non-null trial_duration_days.
C35_CodeNameAndTrialFlagConsistent ==
    calc_pc = "done" => (WellFormedExpectation(exp_out) /\ WellFormedExpectation(uv_out))

\* ------------------------------------------------------ function harness
\* the executor and the calculator harness at rest
IdleExecutor ==
    /\ pc = "fn"
    /\ num_actions = 0
    /\ action_name = "none"
    /\ idx = 0
    /\ cleanup_users = "unread"
    /\ cleanup_arg = "unread"
    /\ trial_eligible = FALSE
    /\ admin_logged_in = FALSE
    /\ subscription_state = FreshState
    /\ all_actions_passed = TRUE
    /\ result = FreshResult
    /\ action_result = NoActionResult
    /\ verify_result = NoVerifyResult
    /\ executed = {}
    /\ action_failed = FALSE
    /\ action_stopped = FALSE
    /\ uv_failed = FALSE
    /\ raised = FALSE
    /\ admin_trouble = "none"
    /\ cumulative_days = 0
    /\ original_start = NoDate
    /\ cleanup_outcome = "none"
    /\ propagated = FALSE
    /\ calc_pc = "idle"
    /\ calc_has_state = FALSE
    /\ calc_state = FreshState
    /\ calc_days = 0
    /\ exp_out = NoExpectation
    /\ uv_out = NoExpectation

\* action_type values of calculate_expected_status and calculate_expected_dates
ExpectationActionTypes == {"purchase", "cancel", "refund", "reactivate", "advance_time"}

\* plan configurations, with and without the optional keys
FnConfigs ==
    {[EmptyConfig EXCEPT !.supports_trial = sup, !.trial_period_days = tpd,
                         !.expected_status_with_trial = sw,
                         !.expected_status_name_with_trial = nw,
                         !.expected_status_without_trial = swo,
                         !.expected_status_name_without_trial = nwo] :
        sup \in BOOLEAN, tpd \in {0, 30, DefaultTrialPeriodDays},
        sw \in {0, 1, 3}, nw \in {"", "trial"},
        swo \in {0, 1, 3}, nwo \in {"", "active"}}

\* prior states of the status rules
StatusStates ==
    {FreshState}
    \cup {[FreshState EXCEPT !.status_code = sc, !.is_cancelled = c,
                             !.trial_period_days = DefaultTrialPeriodDays,
                             !.start_date = At(0), !.expire_date = At(1)] :
             sc \in {1, 3, 4}, c \in BOOLEAN}

StatusInputs ==
    {[fn |-> "status", action_type |-> a, cfg |-> cfg, eligible |-> el,
      has_state |-> hs, st |-> st] :
        a \in ExpectationActionTypes, cfg \in FnConfigs, el \in BOOLEAN,
        hs \in BOOLEAN, st \in StatusStates}

\* calculate_expected_status and the expectation of verify_from_user_api on the
\* same arguments (one day reported by the action)
ApplyExpectedStatus ==
    /\ fn_pc = "input"
    /\ fn_in.fn = "status"
    /\ fn_out' = [fn |-> "status",
                  exp |-> calculate_expected_status(fn_in.action_type, fn_in.has_state,
                                                    fn_in.st, fn_in.cfg, fn_in.eligible),
                  uv |-> UserVerifier_expected_status(fn_in.action_type, fn_in.st, 1,
                                                      fn_in.cfg, fn_in.eligible)]
    /\ fn_pc' = "done"
    /\ UNCHANGED <<exec_vars, calc_pc, calc_has_state, calc_state, calc_days, exp_out,
                   uv_out, fn_in, report_vars>>

\* C11 as stated: for purchase and reactivate the expectation is 3 'trial' with
\* the trial check and the plan's trial days exactly when the plan supports a
\* trial and the caller is eligible, and 1 'active' without a trial check
\* otherwise, in both calculators.
C11_TrialStatusFixed ==
    (/\ fn_pc = "done"
     /\ fn_in.fn = "status"
     /\ fn_in.action_type \in {"purchase", "reactivate"}) =>
        LET e == IF fn_in.cfg.supports_trial /\ fn_in.eligible
                 THEN Expectation(3, "trial", TRUE,
                                  GetOr(fn_in.cfg.trial_period_days, DefaultTrialPeriodDays),
                                  0, NoDate)
                 ELSE Expectation(1, "active", FALSE, 0, 0, NoDate)
        IN  fn_out.exp = e /\ fn_out.uv = e

\* C11, amended: the status code and name are the plan's expected_status_with_trial
\* and expected_status_without_trial entries (3 'trial' and 1 'active' when the
\* plan sets none); only the reactivate branch of the user verifier always
\* expects 3 'trial' or 1 'active'.  The trial check and the trial days are as
\* the claim says.
C11_TrialStatusFromConfig ==
    (/\ fn_pc = "done"
     /\ fn_in.fn = "status"
     /\ fn_in.action_type \in {"purchase", "reactivate"}) =>
        LET cfg == fn_in.cfg
            trial == cfg.supports_trial /\ fn_in.eligible
            days == IF trial THEN GetOr(cfg.trial_period_days, DefaultTrialPeriodDays) ELSE 0
            configured ==
                IF trial
                THEN Expectation(GetOr(cfg.expected_status_with_trial, 3),
                                 GetName(cfg.expected_status_name_with_trial, "trial"),
                                 TRUE, days, 0, NoDate)
                ELSE Expectation(GetOr(cfg.expected_status_without_trial, 1),
                                 GetName(cfg.expected_status_name_without_trial, "active"),
                                 FALSE, days, 0, NoDate)
            fixed == IF trial THEN Expectation(3, "trial", TRUE, days, 0, NoDate)
                     ELSE Expectation(1, "active", FALSE, days, 0, NoDate)
        IN  /\ fn_out.exp = configured
            /\ fn_out.uv = IF fn_in.action_type = "reactivate" THEN fixed ELSE configured

\* C11 witness: a reactivate under a plan that sets expected_status_with_trial
C11_Witness ==
    /\ fn_pc = "done"
    /\ fn_in.fn = "status"
    /\ fn_in.action_type = "reactivate"
    /\ fn_in.cfg.supports_trial
    /\ fn_in.eligible
    /\ fn_in.cfg.expected_status_with_trial = 1
    /\ fn_out.exp.expected_status_code = 1
    /\ fn_out.uv.expected_status_code = 3

\* C12: calculate_expected_status returns 4 'cancelled' for cancel and
\* 5 'refunded' for refund, without a trial check, for every plan, prior state
\* and eligibility.
C12_CancelRefundPriority ==
    (fn_pc = "done" /\ fn_in.fn = "status") =>
        /\ fn_in.action_type = "cancel" =>
               fn_out.exp = Expectation(4, "cancelled", FALSE, 0, 0, NoDate)
        /\ fn_in.action_type = "refund" =>
               fn_out.exp = Expectation(5, "refunded", FALSE, 0, 0, NoDate)

\* C12 witness: a refund for a trial-eligible caller on a cancelled trial
C12_Witness ==
    /\ fn_pc = "done"
    /\ fn_in.fn = "status"
    /\ fn_in.action_type = "refund"
    /\ fn_in.cfg.supports_trial
    /\ fn_in.eligible
    /\ fn_in.has_state
    /\ fn_in.st.is_cancelled
    /\ fn_in.st.status_code = 3
    /\ fn_out.exp.expected_status_code = 5

\* ------------------------------------------------------- calendar dates
MaxAdvance == 3
DefaultDurationMonths == 12

\* an ISO-8601 string "YYYY-MM-DDTHH:MM:SS.mmmZ": sec is the second of the day,
\* ms the millisecond part
Iso(y, m, d, sec, ms) == [k |-> "ok", y |-> y, m |-> m, d |-> d, sec |-> sec, ms |-> ms]

\* a datetime value
DateTime(y, m, d, sec, ms) == [y |-> y, m |-> m, d |-> d, sec |-> sec, ms |-> ms]

IsLeap(y) == (y % 4 = 0 /\ y % 100 # 0) \/ y % 400 = 0

DaysInMonth(y, m) ==
    IF m = 2 THEN (IF IsLeap(y) THEN 29 ELSE 28)
    ELSE IF m \in {4, 6, 9, 11} THEN 30 ELSE 31

\* datetime.fromisoformat(s.replace('Z', '+00:00')) of a well-formed string
fromisoformat(s) == DateTime(s.y, s.m, s.d, s.sec, s.ms)

\* dt.strftime("%Y-%m-%dT%H:%M:%S.000Z"): the millisecond part is written as 000
strftime(dt) == Iso(dt.y, dt.m, dt.d, dt.sec, 0)

\* the first day of the month after dt's, at dt's time of day
NextMonth(dt) ==
    IF dt.m < 12 THEN [dt EXCEPT !.m = dt.m + 1, !.d = 1]
    ELSE [dt EXCEPT !.y = dt.y + 1, !.m = 1, !.d = 1]

RECURSIVE AddDays(_, _)
\* dt + timedelta(days=n), month by month
AddDays(dt, n) ==
    LET left == DaysInMonth(dt.y, dt.m) - dt.d
    IN  IF n <= left THEN [dt EXCEPT !.d = dt.d + n]
        ELSE AddDays(NextMonth(dt), n - left - 1)

\* a < b on datetime values
Before(a, b) ==
    \/ a.y < b.y
    \/ a.y = b.y /\ a.m < b.m
    \/ a.y = b.y /\ a.m = b.m /\ a.d < b.d
    \/ a.y = b.y /\ a.m = b.m /\ a.d = b.d /\ a.sec < b.sec
    \/ a.y = b.y /\ a.m = b.m /\ a.d = b.d /\ a.sec = b.sec /\ a.ms < b.ms

\* a variant adding a fixed count of 30 days per month
add_subscription_duration_FixedDays(start_date, duration_months) ==
    AddDays(start_date, 30 * duration_months)

\* SubscriptionExpectations._add_subscription_duration:
\* start_date + relativedelta(months=duration_months)
add_subscription_duration(start_date, duration_months) ==
    LET total == (start_date.m - 1) + duration_months
        y == start_date.y + total \div 12
        m == (total % 12) + 1
        last == DaysInMonth(y, m)
    IN  [start_date EXCEPT !.y = y, !.m = m,
                           !.d = IF start_date.d > last THEN last ELSE start_date.d]

\* a variant of the try block that reads the dates the backend reports
RenewalDates_FromActual(has_state, st, actual_start, actual_expire, duration_months) ==
    LET start_date == fromisoformat(actual_start)
        expire_date == fromisoformat(actual_expire)
        days_advanced == IF has_state THEN st.days_advanced ELSE 0
    IN  IF ~Before(AddDays(start_date, days_advanced), expire_date)
        THEN <<strftime(expire_date),
               strftime(add_subscription_duration(expire_date, duration_months))>>
        ELSE <<actual_start, actual_expire>>

\* calculate_expected_dates, the try block of the advance_time branch
RenewalDates(has_state, st, actual_start, actual_expire, duration_months) ==
    LET original_start_str == IF has_state THEN st.start_date ELSE NoDate
        original_expire_str == IF has_state THEN st.expire_date ELSE NoDate
        missing == ~Truthy(original_start_str) \/ ~Truthy(original_expire_str)
        start_str == IF missing THEN actual_start ELSE original_start_str
        expire_str == IF missing THEN actual_expire ELSE original_expire_str
        days_advanced == IF has_state THEN st.days_advanced ELSE 0
    IN  IF ~Parses(start_str) \/ ~Parses(expire_str)
        THEN <<actual_start, actual_expire>>
        ELSE LET start_date == fromisoformat(start_str)
                 expire_date == fromisoformat(expire_str)
                 simulated_now == AddDays(start_date, days_advanced)
             IN  IF ~Before(simulated_now, expire_date)
                 THEN <<strftime(expire_date),
                        strftime(add_subscription_duration(expire_date, duration_months))>>
                 ELSE <<actual_start, actual_expire>>

\* a variant that renews cancelled subscriptions too
AdvanceTimeDates_IgnoreCancelled(has_state, st, actual_start, actual_expire, has_config, cfg) ==
    RenewalDates(has_state, st, actual_start, actual_expire,
                 IF has_config THEN GetOr(cfg.duration_months, DefaultDurationMonths)
                 ELSE DefaultDurationMonths)

\* calculate_expected_dates, the advance_time branch
AdvanceTimeDates(has_state, st, actual_start, actual_expire, has_config, cfg) ==
    LET is_cancelled == has_state /\ st.is_cancelled
        duration_months == IF has_config
                           THEN GetOr(cfg.duration_months, DefaultDurationMonths)
                           ELSE DefaultDurationMonths
    IN  IF is_cancelled THEN <<actual_start, actual_expire>>
        ELSE RenewalDates(has_state, st, actual_start, actual_expire,
                          duration_months)

\* a variant that applies the advance_time rule to every action type
calculate_expected_dates_AlwaysAdvance(action_type, has_state, st, actual_start, actual_expire, has_config, cfg) ==
    AdvanceTimeDates(has_state, st, actual_start, actual_expire, has_config, cfg)

\* SubscriptionExpectations.calculate_expected_dates
calculate_expected_dates(action_type, has_state, st, actual_start, actual_expire, has_config, cfg) ==
    IF action_type \in {"purchase", "cancel", "refund", "reactivate"}
    THEN <<actual_start, actual_expire>>
    ELSE IF action_type = "advance_time"
    THEN AdvanceTimeDates(has_state, st, actual_start, actual_expire,
                          has_config, cfg)
    ELSE <<actual_start, actual_expire>>

\* ---- inputs of calculate_expected_dates
Milliseconds == {0, 500}

\* start and expire of the prior snapshot: one or two days apart around the end
\* of January and of February 2024, absent, or unreadable
StatePeriods ==
    {<<Iso(2024, b[1], b[2], b[3], ms1),
       [k |-> "ok"] @@ [AddDays(DateTime(2024, b[1], b[2], b[3], ms1), n) EXCEPT !.ms = ms2]>> :
        b \in {<<1, 30, 0>>, <<2, 28, 43200>>}, ms1 \in Milliseconds,
        n \in 1..2, ms2 \in Milliseconds}
    \cup {<<NoDate, Iso(2024, 1, 31, 0, 0)>>, <<Iso(2024, 1, 30, 0, 0), NoDate>>,
          <<NoDate, NoDate>>, <<BadDate, Iso(2024, 1, 31, 0, 0)>>}

\* start and expire reported by the backend: the first period, its renewal, and
\* a later period
ActualPeriods ==
    {<<Iso(2024, 1, 30, 0, 0), Iso(2024, 1, 31, 0, 0)>>,
     <<Iso(2024, 1, 31, 0, 0), Iso(2025, 1, 31, 0, 0)>>,
     <<Iso(2024, 3, 1, 43200, 500), Iso(2025, 3, 1, 43200, 500)>>}

DatesInputs ==
    {[fn |-> "dates", action_type |-> a, has_state |-> hs,
      st |-> [FreshState EXCEPT !.is_cancelled = c, !.days_advanced = n,
                                !.start_date = p[1], !.expire_date = p[2]],
      actual_start |-> ap[1], actual_expire |-> ap[2],
      has_config |-> hc, cfg |-> [EmptyConfig EXCEPT !.duration_months = dm]] :
        a \in ExpectationActionTypes \cup {"verify"}, hs \in BOOLEAN, c \in BOOLEAN,
        n \in 0..MaxAdvance, p \in StatePeriods, ap \in ActualPeriods,
        hc \in BOOLEAN, dm \in {0, 1, DefaultDurationMonths}}

ApplyExpectedDates ==
    /\ fn_pc = "input"
    /\ fn_in.fn = "dates"
    /\ fn_out' = LET r == calculate_expected_dates(fn_in.action_type, fn_in.has_state,
                                                   fn_in.st, fn_in.actual_start,
                                                   fn_in.actual_expire,
                                                   fn_in.has_config, fn_in.cfg)
                 IN  [fn |-> "dates", expected_start |-> r[1], expected_expire |-> r[2]]
    /\ fn_pc' = "done"
    /\ UNCHANGED <<exec_vars, calc_pc, calc_has_state, calc_state, calc_days, exp_out,
                   uv_out, fn_in, report_vars>>

\* the plan's duration_months as calculate_expected_dates reads it
DurationMonthsOf(in) ==
    IF in.has_config THEN GetOr(in.cfg.duration_months, DefaultDurationMonths)
    ELSE DefaultDurationMonths

\* the case of C13: advance_time on a non-cancelled snapshot with readable start S
\* and expire E, and S + days_advanced >= E
RenewalCase ==
    /\ fn_pc = "done"
    /\ fn_in.fn = "dates"
    /\ fn_in.action_type = "advance_time"
    /\ fn_in.has_state
    /\ ~fn_in.st.is_cancelled
    /\ Parses(fn_in.st.start_date)
    /\ Parses(fn_in.st.expire_date)
    /\ ~Before(AddDays(fromisoformat(fn_in.st.start_date), fn_in.st.days_advanced),
               fromisoformat(fn_in.st.expire_date))

\* C13 as stated: in the renewal case the expected start is the snapshot's expire
\* date E itself and the expected expire is E plus duration_months calendar
\* months, whatever the backend reports.
C13_RenewalFromPriorDates ==
    RenewalCase =>
        LET E == fn_in.st.expire_date
            later == add_subscription_duration(fromisoformat(E), DurationMonthsOf(fn_in))
        IN  /\ fn_out.expected_start = E
            /\ fn_out.expected_expire = Iso(later.y, later.m, later.d, later.sec, later.ms)

\* C13, amended: the two dates are returned at whole-second precision, written
\* with the millisecond part 000.
C13_RenewalFromPriorDatesWholeSeconds ==
    RenewalCase =>
        LET E == fn_in.st.expire_date
            later == add_subscription_duration(fromisoformat(E), DurationMonthsOf(fn_in))
        IN  /\ fn_out.expected_start = Iso(E.y, E.m, E.d, E.sec, 0)
            /\ fn_out.expected_expire = Iso(later.y, later.m, later.d, later.sec, 0)

\* C13 witness: a renewal over the leap day whose dates differ from the backend's
C13_Witness ==
    /\ RenewalCase
    /\ fn_in.st.expire_date = Iso(2024, 2, 29, 43200, 500)
    /\ fn_in.actual_start = Iso(2024, 3, 1, 43200, 500)
    /\ fn_in.cfg.duration_months = DefaultDurationMonths
    /\ fn_in.has_config
    /\ fn_out.expected_start = Iso(2024, 2, 29, 43200, 0)
    /\ fn_out.expected_expire = Iso(2025, 2, 28, 43200, 0)

\* C14: for advance_time on a cancelled snapshot the dates the backend reports
\* are returned unchanged, for every days_advanced.
C14_CancelledDatesUnchanged ==
    (/\ fn_pc = "done"
     /\ fn_in.fn = "dates"
     /\ fn_in.action_type = "advance_time"
     /\ fn_in.has_state
     /\ fn_in.st.is_cancelled) =>
        /\ fn_out.expected_start = fn_in.actual_start
        /\ fn_out.expected_expire = fn_in.actual_expire

\* C14 witness: a cancelled snapshot advanced past its expire date
C14_Witness ==
    /\ fn_pc = "done"
    /\ fn_in.fn = "dates"
    /\ fn_in.action_type = "advance_time"
    /\ fn_in.has_state
    /\ fn_in.st.is_cancelled
    /\ fn_in.st.start_date = Iso(2024, 1, 30, 0, 0)
    /\ fn_in.st.expire_date = Iso(2024, 1, 31, 0, 0)
    /\ fn_in.st.days_advanced = MaxAdvance
    /\ fn_in.actual_start = Iso(2024, 1, 30, 0, 0)
    /\ fn_out.expected_start = Iso(2024, 1, 30, 0, 0)
    /\ fn_out.expected_expire = Iso(2024, 1, 31, 0, 0)

\* C15: for every action type other than advance_time the dates given as actual
\* are returned.
C15_OtherActionsReturnActual ==
    (/\ fn_pc = "done"
     /\ fn_in.fn = "dates"
     /\ fn_in.action_type # "advance_time") =>
        /\ fn_out.expected_start = fn_in.actual_start
        /\ fn_out.expected_expire = fn_in.actual_expire

\* C15 witness: a refund on a live snapshot that an advance_time would renew
C15_Witness ==
    /\ fn_pc = "done"
    /\ fn_in.fn = "dates"
    /\ fn_in.action_type = "refund"
    /\ fn_in.has_state
    /\ ~fn_in.st.is_cancelled
    /\ fn_in.st.start_date = Iso(2024, 1, 30, 0, 0)
    /\ fn_in.st.expire_date = Iso(2024, 1, 31, 0, 0)
    /\ fn_in.st.days_advanced = MaxAdvance
    /\ fn_in.actual_start = Iso(2024, 1, 30, 0, 0)
    /\ fn_out.expected_start = Iso(2024, 1, 30, 0, 0)
    /\ fn_out.expected_expire = Iso(2024, 1, 31, 0, 0)

\* ---- inputs of _add_subscription_duration
DurationInputs ==
    {[fn |-> "duration", start_date |-> DateTime(y, m, d, sec, ms), duration_months |-> n] :
        y \in {2023, 2024}, m \in 1..12, d \in {1, 15, 28, 29, 30, 31},
        sec \in {0, 43200}, ms \in Milliseconds, n \in {1, 2, 11, 12, 13, 24}}

ApplyAddDuration ==
    /\ fn_pc = "input"
    /\ fn_in.fn = "duration"
    /\ fn_in.start_date.d <= DaysInMonth(fn_in.start_date.y, fn_in.start_date.m)
    /\ fn_out' = [fn |-> "duration",
                  expire_date |-> add_subscription_duration(fn_in.start_date,
                                                            fn_in.duration_months)]
    /\ fn_pc' = "done"
    /\ UNCHANGED <<exec_vars, calc_pc, calc_has_state, calc_state, calc_days, exp_out,
                   uv_out, fn_in, report_vars>>

\* C16: _add_subscription_duration moves the date forward by exactly
\* duration_months calendar months, keeps the time of day, and keeps the day of
\* the month unless the target month is shorter, in which case the day is that
\* month's last; 2024-01-31 plus 12 months is 2025-01-31 and plus 1 month is
\* 2024-02-29.
C16_CalendarMonths ==
    (fn_pc = "done" /\ fn_in.fn = "duration") =>
        LET s == fn_in.start_date
            e == fn_out.expire_date
            last == IF e.m = 2 THEN (IF e.y = 2024 THEN 29 ELSE 28)
                    ELSE IF e.m \in {4, 6, 9, 11} THEN 30 ELSE 31
        IN  /\ e.m \in 1..12
            /\ e.y * 12 + e.m = s.y * 12 + s.m + fn_in.duration_months
            /\ e.sec = s.sec /\ e.ms = s.ms
            /\ e.d = IF s.d <= last THEN s.d ELSE last
            /\ (s.y = 2024 /\ s.m = 1 /\ s.d = 31 /\ fn_in.duration_months = 12)
                   => (e.y = 2025 /\ e.m = 1 /\ e.d = 31)
            /\ (s.y = 2024 /\ s.m = 1 /\ s.d = 31 /\ fn_in.duration_months = 1)
                   => (e.y = 2024 /\ e.m = 2 /\ e.d = 29)

\* C16 witness: one month added to 2024-01-31 12:00
C16_Witness ==
    /\ fn_pc = "done"
    /\ fn_in.fn = "duration"
    /\ fn_in.start_date = DateTime(2024, 1, 31, 43200, 500)
    /\ fn_in.duration_months = 1
    /\ fn_out.expire_date = DateTime(2024, 2, 29, 43200, 500)

\* ------------------------------------------------------- purchase action
\* expected_result values of the test cards
ExpectedPaymentResults == {"success", "declined"}

\* how far _execute_purchase_action gets: the two ValueErrors before the try,
\* the early returns of steps 1 to 4, an exception inside the try, or the
\* payment service answering
PurchaseStages ==
    {"unknown_subscription", "unknown_card", "plan_not_eligible", "no_checkout_url",
     "checkout_not_verified", "missing_auth", "exception", "paid"}

\* a variant that accepts whatever the payment service answers
PurchaseOutcome_AcceptAnyPayment(stage, expected_result, payment_success) ==
    CASE stage \in {"unknown_subscription", "unknown_card"} -> "raise"
      [] stage = "paid" -> IF expected_result = "success" THEN "ok" ELSE "declined_ok"
      [] OTHER -> "fail"

\* ActionExecutor._execute_purchase_action, as an outcome of Outcomes("purchase")
PurchaseOutcome(stage, expected_result, payment_success) ==
    CASE stage \in {"unknown_subscription", "unknown_card"} -> "raise"
      [] stage = "paid" ->
            IF expected_result = "success"
            THEN (IF payment_success THEN "ok" ELSE "fail")
            ELSE (IF ~payment_success THEN "declined_ok" ELSE "fail")
      [] OTHER -> "fail"

PurchaseInputs ==
    {[fn |-> "purchase", stage |-> s, expected_result |-> e, payment_success |-> p] :
        s \in PurchaseStages, e \in ExpectedPaymentResults, p \in BOOLEAN}

ApplyPurchase ==
    /\ fn_pc = "input"
    /\ fn_in.fn = "purchase"
    /\ fn_out' = LET o == PurchaseOutcome(fn_in.stage, fn_in.expected_result,
                                          fn_in.payment_success)
                 IN  [fn |-> "purchase", outcome |-> o,
                      result |-> ActionResult("purchase", o, 0)]
    /\ fn_pc' = "done"
    /\ UNCHANGED <<exec_vars, calc_pc, calc_has_state, calc_state, calc_days, exp_out,
                   uv_out, fn_in, report_vars>>

\* C19: a purchase action returns success=True only if the payment service was
\* reached and its answer matches the card's expected result (success expected
\* and paid, or a failure expected and not paid); a mismatch in either direction
\* returns success=False.
C19_PurchaseSuccessIffExpected ==
    (fn_pc = "done" /\ fn_in.fn = "purchase") =>
        LET matches == (fn_in.expected_result = "success") = fn_in.payment_success
        IN  /\ fn_out.result.success => (fn_in.stage = "paid" /\ matches)
            /\ (fn_in.stage = "paid" /\ ~matches) => ~fn_out.result.success
            /\ (fn_in.stage = "paid" /\ matches) => fn_out.result.success

\* C19 witness: a card expected to be declined whose payment goes through
C19_Witness ==
    /\ fn_pc = "done"
    /\ fn_in.fn = "purchase"
    /\ fn_in.stage = "paid"
    /\ fn_in.expected_result = "declined"
    /\ fn_in.payment_success
    /\ ~fn_out.result.success

\* ------------------------------------------- executor path on calendar dates
\* an ISO-8601 string that also carries its instant in ticks
Stamp(dt, t) ==
    [k |-> "ok", y |-> dt.y, m |-> dt.m, d |-> dt.d, sec |-> dt.sec, ms |-> dt.ms, t |-> t]

\* _verify_subscription_status, "Calculate expected dates for time advancement
\* scenarios": (expected_start_date, expected_expire_date) of the result
UserVerifier_expected_dates(a, st, cfg) ==
    IF a = "advance_time" \/ st.days_advanced > 0
    THEN LET expected_start_date == st.expire_date
         IN  IF Truthy(expected_start_date) /\ cfg.duration_days # 0
                /\ Parses(expected_start_date)
             THEN <<expected_start_date,
                    strftime(AddDays(fromisoformat(expected_start_date), cfg.duration_days))>>
             ELSE <<expected_start_date, NoDate>>
    ELSE <<NoDate, NoDate>>

\* the purchase instant, the plan's duration_days entry (0: the plan has none)
\* and the days of the advance_time action
ScenarioInputs ==
    {[fn |-> "scenario", start |-> DateTime(y, m, d, sec, ms), duration_days |-> dd,
      days |-> n] :
        y \in {2023, 2024}, m \in {1, 2, 12}, d \in {1, 15, 28}, sec \in {0, 43200},
        ms \in Milliseconds, dd \in {0, 365}, n \in {46}}

\* run_single_test on [purchase (card succeeds), advance_time] for a
\* trial-eligible user, against a backend that opens a trial of
\* trial_period_days days and renews it for duration_months months
ApplyScenario ==
    /\ fn_pc = "input"
    /\ fn_in.fn = "scenario"
    /\ LET cfg == [PlanConfig EXCEPT !.duration_days = fn_in.duration_days]
           S == fn_in.start
           E == AddDays(S, cfg.trial_period_days)
           R == add_subscription_duration(E, cfg.duration_months)
           ar1 == ActionResult("purchase", "ok", 0)
           st1 == UpdateStateFromAction(FreshState, "purchase", ar1)
           b1 == [kind |-> "sub", status |-> 3, trial |-> cfg.trial_period_days,
                  start |-> Stamp(S, 0), expire |-> Stamp(E, timedelta(cfg.trial_period_days)),
                  other_issues |-> FALSE]
           vr1 == verify_from_user_api("purchase", ar1, st1, TRUE, TRUE, b1)
           st2 == UpdateStateFromVerification(st1, vr1)
           ar2 == ActionResult("advance_time", "ok", fn_in.days)
           st3 == UpdateStateFromAction(st2, "advance_time", ar2)
           b2 == [kind |-> "sub", status |-> 1, trial |-> 0,
                  start |-> Stamp(E, timedelta(cfg.trial_period_days)),
                  expire |-> Stamp(R, timedelta(cfg.trial_period_days) + timedelta(365)),
                  other_issues |-> FALSE]
           vr2 == verify_from_user_api("advance_time", ar2, st3, TRUE, TRUE, b2)
           dates == UserVerifier_expected_dates("advance_time", st3, cfg)
       IN  fn_out' = [fn |-> "scenario",
                      after_purchase |-> vr1, trial |-> vr1.subscription,
                      after_advance |-> vr2,
                      expected_start_date |-> dates[1],
                      expected_expire_date |-> dates[2]]
    /\ fn_pc' = "done"
    /\ UNCHANGED <<exec_vars, calc_pc, calc_has_state, calc_state, calc_days, exp_out,
                   uv_out, fn_in, report_vars>>

\* C17: for a trial-eligible user and the plan {code 1, duration_months 12,
\* supports_trial, trial_period_days 45}, purchase then advance_time of 46 days
\* gives, after the purchase, expected status 3 with a 45-day trial, and after the
\* advance_time expected status 1, expected start = the trial's expire date and
\* expected expire = the trial's expire date plus 12 calendar months (compared
\* at whole-second precision).
C17_EndToEndTrialRenewal ==
    (fn_pc = "done" /\ fn_in.fn = "scenario") =>
        LET E == fn_out.trial.expire_date
            renewed == add_subscription_duration(fromisoformat(E), 12)
        IN  /\ fn_out.after_purchase.expectation.expected_status_code = 3
            /\ fn_out.after_purchase.expectation.check_trial_period
            /\ fn_out.after_purchase.expectation.trial_duration_days = 45
            /\ fromisoformat(E) = AddDays(fn_in.start, 45)
            /\ fn_out.after_advance.expectation.expected_status_code = 1
            /\ fn_out.expected_start_date = E
            /\ Parses(fn_out.expected_expire_date)
            /\ strftime(fromisoformat(fn_out.expected_expire_date)) = strftime(renewed)

\* ---- user-side verification of one action
\* backend responses: an exception, no active subscription, or a subscription
\* of one period
VerifyBackends ==
    {[NoResponse EXCEPT !.kind = "error"], NoResponse}
    \cup
    {[kind |-> "sub", status |-> s, trial |-> tr, start |-> At(0), expire |-> At(1),
      other_issues |-> oi] :
        s \in {1, 3, 4}, tr \in {0, DefaultTrialPeriodDays}, oi \in BOOLEAN}

VerifyInputs ==
    {[fn |-> "verify", action_type |-> a, action_result |-> ActionResult(a, o, 1),
      st |-> st, eligible |-> el, check_status |-> cs, backend |-> b] :
        a \in ExpectationActionTypes, o \in {"ok", "fail"}, st \in StatusStates,
        el \in BOOLEAN, cs \in BOOLEAN, b \in VerifyBackends}

ApplyVerifyFromUserApi ==
    /\ fn_pc = "input"
    /\ fn_in.fn = "verify"
    /\ fn_out' = [fn |-> "verify",
                  result |-> verify_from_user_api(fn_in.action_type, fn_in.action_result,
                                                  fn_in.st, fn_in.eligible,
                                                  fn_in.check_status, fn_in.backend)]
    /\ fn_pc' = "done"
    /\ UNCHANGED <<exec_vars, calc_pc, calc_has_state, calc_state, calc_days, exp_out,
                   uv_out, fn_in, report_vars>>

\* C20: the user-side verification of a successful refund action returns
\* verified=True, with no subscription, when the backend reports no active
\* subscription.
C20_RefundVerifiedWithoutSubscription ==
    (/\ fn_pc = "done"
     /\ fn_in.fn = "verify"
     /\ fn_in.action_type = "refund"
     /\ fn_in.action_result.success
     /\ fn_in.check_status
     /\ fn_in.backend.kind = "none") =>
        /\ fn_out.result.verified
        /\ ~fn_out.result.has_subscription

\* C18: when a purchase with a card expected to be declined was declined and the
\* user is as free after it as before it (no subscription tracked, none
\* reported), the user-side verification of that purchase passes.
C18_DeclinedPurchaseUnchangedPasses ==
    (/\ pc = "admin_verify"
     /\ action_name = "purchase"
     /\ action_result.success
     /\ ~action_result.has_subscription_type
     /\ subscription_state = FreshState
     /\ ~verify_result.has_subscription) =>
        verify_result.verified

\* ------------------------------------------------- verification check maps
ToleranceSeconds == 60
RecentStartSeconds == 3600

\* |a - b| of two instants in seconds
AbsDiff(a, b) == IF a >= b THEN a - b ELSE b - a

\* the checks map of a result, as (field, passed) pairs
AllPassed(checks) == \A c \in checks : c[2]
CheckNames(checks) == {c[1] : c \in checks}

\* fields_to_verify of verify_states_are_same, in its order
StateFields ==
    <<"exists", "subscription_id", "plan_code", "status_code", "start_date", "expire_date">>

\* a variant that stops at the first field that differs
verify_states_are_same_ShortCircuit(state_before, state_after) ==
    LET differs(i) == state_before[StateFields[i]] # state_after[StateFields[i]]
        upto == IF \E i \in 1..Len(StateFields) : differs(i)
                THEN CHOOSE i \in 1..Len(StateFields) :
                        differs(i) /\ \A j \in 1..(i - 1) : ~differs(j)
                ELSE Len(StateFields)
        checks == {<<StateFields[i], ~differs(i)>> : i \in 1..upto}
    IN  [verified |-> AllPassed(checks), checks |-> checks]

\* SubscriptionStateManager.verify_states_are_same with the default fields
verify_states_are_same(state_before, state_after) ==
    LET checks == {<<StateFields[i],
                     state_before[StateFields[i]] = state_after[StateFields[i]]>> :
                      i \in 1..Len(StateFields)}
        differences == {c[1] : c \in {x \in checks : ~x[2]}}
    IN  [verified |-> differences = {}, checks |-> checks]

\* the compared fields of a SubscriptionState; ids, codes and dates are None (0,
\* NoDate) or one of two values
Snapshots ==
    [exists : BOOLEAN, subscription_id : {0, 7}, plan_code : {0, 1}, status_code : {1, 3},
     start_date : {NoDate, At(0)}, expire_date : {NoDate, At(1)}]

SameStateInputs ==
    {[fn |-> "same_state", state_before |-> b, state_after |-> a] :
        b \in Snapshots, a \in Snapshots}

ApplyVerifyStatesAreSame ==
    /\ fn_pc = "input"
    /\ fn_in.fn = "same_state"
    /\ fn_out' = [fn |-> "same_state",
                  result |-> verify_states_are_same(fn_in.state_before, fn_in.state_after)]
    /\ fn_pc' = "done"
    /\ UNCHANGED <<exec_vars, calc_pc, calc_has_state, calc_state, calc_days, exp_out,
                   uv_out, fn_in, report_vars>>

\* AdminVerifier.verify_from_admin_api past the declined-card branch.  found: the
\* admin list has a subscription of the user; instants are in seconds; adv is
\* "action_type == 'advance_time' or state_days_advanced > 0"
verify_from_admin_api(in) ==
    IF in.outcome = "raise" \/ ~in.found
    THEN [verified |-> FALSE, has_checks |-> FALSE, checks |-> {}, parse_error |-> FALSE]
    ELSE LET status_check ==
                 IF in.expected_status_code # 0
                 THEN {<<"status_code", in.actual_status_code = in.expected_status_code>>}
                 ELSE {}
             type_check == {<<"subscription_type", in.actual_type_code = 2>>}
             dates_parse == Parses(in.start_date) /\ Parses(in.expire_date)
             start_expected == in.adv /\ ~in.is_cancelled /\ Truthy(in.expected_start_date)
             start_parse == ~start_expected \/ Parses(in.expected_start_date)
             start_check ==
                 IF in.adv
                 THEN IF start_expected
                      THEN {<<"start_date",
                              AbsDiff(in.start_date.t, in.expected_start_date.t)
                                  <= ToleranceSeconds>>}
                      ELSE {}
                 ELSE {<<"start_date",
                         in.now - in.start_date.t >= 0
                         /\ in.now - in.start_date.t <= RecentStartSeconds>>}
             expire_expected == Truthy(in.expected_expire_date)
             expire_parse == ~expire_expected \/ Parses(in.expected_expire_date)
             expire_check ==
                 IF expire_expected
                 THEN {<<"expire_date",
                         AbsDiff(in.expire_date.t, in.expected_expire_date.t)
                             <= ToleranceSeconds>>}
                 ELSE {}
             date_checks ==
                 IF ~in.check_dates \/ ~dates_parse \/ ~start_parse THEN {}
                 ELSE IF ~expire_parse THEN start_check
                 ELSE start_check \cup expire_check
             parse_error == in.check_dates /\ ~(dates_parse /\ start_parse /\ expire_parse)
             checks == status_check \cup type_check \cup date_checks
             verification_issues == {c[1] : c \in {x \in checks : ~x[2]}}
                                    \cup (IF parse_error THEN {"Date parsing error"} ELSE {})
         IN  [verified |-> verification_issues = {}, has_checks |-> TRUE,
              checks |-> checks, parse_error |-> parse_error]

AdminInputs ==
    {[fn |-> "admin", outcome |-> "ok", found |-> TRUE,
      expected_status_code |-> es, actual_status_code |-> as, actual_type_code |-> ty,
      check_dates |-> cd, adv |-> adv, is_cancelled |-> c,
      expected_start_date |-> xs, expected_expire_date |-> xe,
      start_date |-> s, expire_date |-> e, now |-> 3600] :
        es \in {0, 1, 3}, as \in {1, 3}, ty \in {1, 2}, cd \in BOOLEAN, adv \in BOOLEAN,
        c \in BOOLEAN, xs \in {NoDate, BadDate, At(0)}, xe \in {NoDate, BadDate, At(100000)},
        s \in {BadDate, At(0), At(ToleranceSeconds), At(ToleranceSeconds + 1)},
        e \in {BadDate, At(100000), At(100000 + ToleranceSeconds + 1)}}
    \cup
    {[fn |-> "admin", outcome |-> o, found |-> f,
      expected_status_code |-> 1, actual_status_code |-> 1, actual_type_code |-> 2,
      check_dates |-> TRUE, adv |-> FALSE, is_cancelled |-> FALSE,
      expected_start_date |-> NoDate, expected_expire_date |-> NoDate,
      start_date |-> At(0), expire_date |-> At(100000), now |-> 3600] :
        o \in {"ok", "raise"}, f \in BOOLEAN}

ApplyVerifyFromAdminApi ==
    /\ fn_pc = "input"
    /\ fn_in.fn = "admin"
    /\ fn_out' = [fn |-> "admin", result |-> verify_from_admin_api(fn_in)]
    /\ fn_pc' = "done"
    /\ UNCHANGED <<exec_vars, calc_pc, calc_has_state, calc_state, calc_days, exp_out,
                   uv_out, fn_in, report_vars>>

\* the check entries the admin verifier makes for an input when no date is
\* unreadable, whatever their results
AdminCheckNamesOf(in) ==
    (IF in.expected_status_code # 0 THEN {"status_code"} ELSE {})
    \cup {"subscription_type"}
    \cup (IF in.check_dates /\ (~in.adv \/ (~in.is_cancelled /\ Truthy(in.expected_start_date)))
          THEN {"start_date"} ELSE {})
    \cup (IF in.check_dates /\ Truthy(in.expected_expire_date) THEN {"expire_date"} ELSE {})

\* C21 as stated: a result that has a checks map is verified exactly when every
\* check entry passed.
C21_VerifiedIffAllChecksPassed ==
    /\ (fn_pc = "done" /\ fn_in.fn = "same_state") =>
           (fn_out.result.verified <=> AllPassed(fn_out.result.checks))
    /\ (fn_pc = "done" /\ fn_in.fn = "admin" /\ fn_out.result.has_checks) =>
           (fn_out.result.verified <=> AllPassed(fn_out.result.checks))

\* C21, amended: verified holds exactly when every check entry passed and, in the
\* admin verifier, no date was unreadable; verify_states_are_same always records
\* all six fields, and the admin verifier records every applicable check whatever
\* the results of the others, unless a date is unreadable.
C21_VerifiedIffAllChecksPassedAndDatesParse ==
    /\ (fn_pc = "done" /\ fn_in.fn = "same_state") =>
           /\ fn_out.result.verified <=> AllPassed(fn_out.result.checks)
           /\ CheckNames(fn_out.result.checks) = {StateFields[i] : i \in 1..Len(StateFields)}
           /\ \A i \in 1..Len(StateFields) :
                  <<StateFields[i],
                    fn_in.state_before[StateFields[i]] = fn_in.state_after[StateFields[i]]>>
                      \in fn_out.result.checks
    /\ (fn_pc = "done" /\ fn_in.fn = "admin" /\ fn_out.result.has_checks) =>
           /\ fn_out.result.verified <=>
                  (AllPassed(fn_out.result.checks) /\ ~fn_out.result.parse_error)
           /\ ~fn_out.result.parse_error =>
                  CheckNames(fn_out.result.checks) = AdminCheckNamesOf(fn_in)

\* C21 witness: an admin result with a failed status check, a failed start date
\* check and a passed expire date check
C21_Witness ==
    /\ fn_pc = "done"
    /\ fn_in.fn = "admin"
    /\ ~fn_out.result.verified
    /\ <<"status_code", FALSE>> \in fn_out.result.checks
    /\ <<"start_date", FALSE>> \in fn_out.result.checks
    /\ <<"expire_date", TRUE>> \in fn_out.result.checks
    /\ <<"subscription_type", TRUE>> \in fn_out.result.checks

\* ------------------------------------------------ subscription state manager
\* subscriptions the membership API can return; instants are in days; trial is
\* package.trial_period_days (0: absent, -1: a string that is not a number)
ApiSub(id, status, trial, start, expire) ==
    [id |-> id, type |-> 2, status |-> status, code |-> 1, trial |-> trial,
     startDate |-> start, expireDate |-> expire]

ApiSubs ==
    {ApiSub(1, 3, DefaultTrialPeriodDays, At(0), At(timedelta(1))),
     ApiSub(2, 1, 0, At(timedelta(3)), At(timedelta(6))),
     ApiSub(3, 4, 0, At(timedelta(7)), At(timedelta(8))),
     ApiSub(4, 1, -1, At(timedelta(1)), At(timedelta(3))),
     ApiSub(5, 1, 0, At(timedelta(2)), BadDate)}

\* the lists of one to three different subscriptions, in every order
ApiLists ==
    {<<a>> : a \in ApiSubs}
    \cup {l \in {<<a, b>> : a, b \in ApiSubs} : l[1] # l[2]}
    \cup {l \in {<<a, b, c>> : a \in {x \in ApiSubs : x.id <= 3}, b, c \in ApiSubs} :
              l[1] # l[2] /\ l[1] # l[3] /\ l[2] # l[3]}

\* GetSubscriptionsResponse.get_latest_subscription: the first of the list
\* sorted by startDate, descending (the sort is stable)
get_latest_subscription(subs) ==
    LET top == CHOOSE i \in 1..Len(subs) :
                   /\ \A j \in 1..Len(subs) : subs[j].startDate.t <= subs[i].startDate.t
                   /\ \A j \in 1..(i - 1) : subs[j].startDate.t < subs[i].startDate.t
    IN  subs[top]

\* SubscriptionStateManager._select_subscription_at_simulated_time (the same
\* code is UserVerifier._select_subscription_at_simulated_time)
select_subscription_at_simulated_time(subs, days_advanced) ==
    IF days_advanced = 0 \/ Len(subs) = 1
    THEN get_latest_subscription(subs)
    ELSE LET original_sub == subs[Len(subs)]
             simulated_now == original_sub.startDate.t + timedelta(days_advanced)
             unreadable(i) == ~(Parses(subs[i].startDate) /\ Parses(subs[i].expireDate))
             contains(i) == /\ ~unreadable(i)
                            /\ subs[i].startDate.t <= simulated_now
                            /\ simulated_now <= subs[i].expireDate.t
             stops == {i \in 1..Len(subs) : unreadable(i) \/ contains(i)}
         IN  IF ~Parses(original_sub.startDate) \/ stops = {}
             THEN get_latest_subscription(subs)
             ELSE LET first == CHOOSE i \in stops : \A j \in stops : i <= j
                  IN  IF contains(first) THEN subs[first]
                      ELSE get_latest_subscription(subs)

SelectInputs ==
    {[fn |-> "select", subscriptions |-> l, days_advanced |-> n] :
        l \in ApiLists, n \in 0..MaxAdvance}

ApplySelectSubscription ==
    /\ fn_pc = "input"
    /\ fn_in.fn = "select"
    /\ fn_out' = [fn |-> "select",
                  selected |-> select_subscription_at_simulated_time(fn_in.subscriptions,
                                                                     fn_in.days_advanced)]
    /\ fn_pc' = "done"
    /\ UNCHANGED <<exec_vars, calc_pc, calc_has_state, calc_state, calc_days, exp_out,
                   uv_out, fn_in, report_vars>>

\* the free-user snapshot of get_current_state
FreeSnapshot(days_advanced) ==
    [exists |-> FALSE, subscription_id |-> 0, subscription_type |-> "none",
     subscription_type_code |-> 0, plan_code |-> 0, duration_months |-> 0,
     status_code |-> 0, status_name |-> "free", start_date |-> NoDate,
     expire_date |-> NoDate, trial_period_days |-> 0, is_cancelled |-> FALSE,
     days_advanced |-> days_advanced, error |-> ""]

\* the snapshot of get_current_state's except branch
ErrorSnapshot(days_advanced) ==
    [FreeSnapshot(days_advanced) EXCEPT !.status_name = "error", !.error = "str(e)"]

\* a variant whose free-user snapshot keeps a status code
get_current_state_PartialFree(response, days_advanced) ==
    IF response.outcome = "raise" THEN ErrorSnapshot(days_advanced)
    ELSE [FreeSnapshot(days_advanced) EXCEPT !.status_code = 4]

\* a variant that reports a user without subscriptions as an error
get_current_state_FreeIsError(response, days_advanced) ==
    IF response.outcome = "raise" \/ Len(response.subscriptions) = 0
    THEN ErrorSnapshot(days_advanced)
    ELSE [FreeSnapshot(days_advanced) EXCEPT !.exists = TRUE]

\* SubscriptionStateManager.get_current_state; status_name of an existing
\* subscription is what the status_codes table gives for its status
get_current_state(response, days_advanced) ==
    IF response.outcome = "raise" THEN ErrorSnapshot(days_advanced)
    ELSE IF Len(response.subscriptions) = 0 THEN FreeSnapshot(days_advanced)
    ELSE LET latest_sub == select_subscription_at_simulated_time(response.subscriptions,
                                                                 days_advanced)
         IN  IF latest_sub.trial = -1
             THEN \* int(trial_period_days) raises ValueError
                  ErrorSnapshot(days_advanced)
             ELSE [exists |-> TRUE, subscription_id |-> latest_sub.id,
                   subscription_type |-> "none",
                   subscription_type_code |-> latest_sub.type,
                   plan_code |-> latest_sub.code, duration_months |-> 0,
                   status_code |-> latest_sub.status, status_name |-> "status_codes",
                   start_date |-> latest_sub.startDate,
                   expire_date |-> latest_sub.expireDate,
                   trial_period_days |-> latest_sub.trial,
                   is_cancelled |-> (latest_sub.status = 4),
                   days_advanced |-> days_advanced, error |-> ""]

StateInputs ==
    {[fn |-> "state", response |-> [outcome |-> o, subscriptions |-> l],
      days_advanced |-> n] :
        o \in {"ok", "raise"}, l \in ApiLists \cup {<<>>}, n \in 0..MaxAdvance}

ApplyGetCurrentState ==
    /\ fn_pc = "input"
    /\ fn_in.fn = "state"
    /\ fn_out' = [fn |-> "state",
                  state |-> get_current_state(fn_in.response, fn_in.days_advanced)]
    /\ fn_pc' = "done"
    /\ UNCHANGED <<exec_vars, calc_pc, calc_has_state, calc_state, calc_days, exp_out,
                   uv_out, fn_in, report_vars>>

\* C22: every snapshot of get_current_state with exists=False has no
\* subscription id, plan code, type, type code, duration, status code, dates or
\* trial period.
C22_AbsentSnapshotEmpty ==
    (fn_pc = "done" /\ fn_in.fn = "state" /\ ~fn_out.state.exists) =>
        /\ fn_out.state.subscription_id = 0
        /\ fn_out.state.subscription_type = "none"
        /\ fn_out.state.subscription_type_code = 0
        /\ fn_out.state.plan_code = 0
        /\ fn_out.state.duration_months = 0
        /\ fn_out.state.status_code = 0
        /\ fn_out.state.start_date = NoDate
        /\ fn_out.state.expire_date = NoDate
        /\ fn_out.state.trial_period_days = 0

\* C22 witness: the conversion of a selected subscription's trial period fails
\* after its other fields were read
C22_Witness ==
    /\ fn_pc = "done"
    /\ fn_in.fn = "state"
    /\ fn_in.response.outcome = "ok"
    /\ Len(fn_in.response.subscriptions) = 2
    /\ ~fn_out.state.exists
    /\ fn_out.state.status_name = "error"
    /\ fn_out.state.plan_code = 0

\* C23: get_current_state always returns a snapshot, of exactly three kinds: no
\* subscriptions in a successful response gives the free snapshot without an
\* error; an exception of the API call or of reading the selected subscription
\* gives an exists=False snapshot named 'error' carrying the message; otherwise
\* the snapshot exists and is that of the selected subscription.
C23_ThreeOutcomes ==
    (fn_pc = "done" /\ fn_in.fn = "state") =>
        LET subs == fn_in.response.subscriptions
            failed == \/ fn_in.response.outcome = "raise"
                      \/ /\ Len(subs) > 0
                         /\ select_subscription_at_simulated_time(
                                subs, fn_in.days_advanced).trial = -1
            s == fn_out.state
        IN  /\ s.days_advanced = fn_in.days_advanced
            /\ failed => (~s.exists /\ s.status_name = "error" /\ s.error # "")
            /\ (~failed /\ Len(subs) = 0) =>
                   (~s.exists /\ s.status_name = "free" /\ s.error = "")
            /\ (~failed /\ Len(subs) > 0) =>
                   /\ s.exists /\ s.error = ""
                   /\ \E i \in 1..Len(subs) :
                          /\ s.subscription_id = subs[i].id
                          /\ s.status_code = subs[i].status
                          /\ s.start_date = subs[i].startDate
                          /\ s.expire_date = subs[i].expireDate
                          /\ subs[i] = select_subscription_at_simulated_time(
                                           subs, fn_in.days_advanced)

\* C23 witness: a successful response without subscriptions
C23_Witness ==
    /\ fn_pc = "done"
    /\ fn_in.fn = "state"
    /\ fn_in.response.outcome = "ok"
    /\ fn_in.response.subscriptions = <<>>
    /\ fn_in.days_advanced = 1
    /\ fn_out.state = FreeSnapshot(1)

\* the instant the selection is to look for: the earliest start date of the list
\* plus days_advanced
EarliestStart(subs) ==
    CHOOSE t \in {subs[i].startDate.t : i \in 1..Len(subs)} :
        \A i \in 1..Len(subs) : t <= subs[i].startDate.t

AllReadable(subs) ==
    \A i \in 1..Len(subs) : Parses(subs[i].startDate) /\ Parses(subs[i].expireDate)

ContainsInstant(sub, t) == sub.startDate.t <= t /\ t <= sub.expireDate.t

\* C24: with days_advanced > 0 and several subscriptions (all with readable
\* dates), when some subscription's interval contains earliest start +
\* days_advanced, the selected one does, in whatever order the list is.
C24_SelectsIntervalOfSimulatedInstant ==
    (/\ fn_pc = "done"
     /\ fn_in.fn = "select"
     /\ fn_in.days_advanced > 0
     /\ Len(fn_in.subscriptions) > 1
     /\ AllReadable(fn_in.subscriptions)) =>
        LET subs == fn_in.subscriptions
            instant == EarliestStart(subs) + timedelta(fn_in.days_advanced)
        IN  (\E i \in 1..Len(subs) : ContainsInstant(subs[i], instant))
                => ContainsInstant(fn_out.selected, instant)

\* C25: with days_advanced = 0, or one subscription, or no interval containing
\* earliest start + days_advanced (all dates readable), the selected
\* subscription has the latest start date of the list.
C25_FallbackToLatestStart ==
    (/\ fn_pc = "done"
     /\ fn_in.fn = "select"
     /\ AllReadable(fn_in.subscriptions)) =>
        LET subs == fn_in.subscriptions
            instant == EarliestStart(subs) + timedelta(fn_in.days_advanced)
        IN  (\/ fn_in.days_advanced = 0
             \/ Len(subs) = 1
             \/ \A i \in 1..Len(subs) : ~ContainsInstant(subs[i], instant))
                => \A i \in 1..Len(subs) :
                       subs[i].startDate.t <= fn_out.selected.startDate.t

\* ----------------------------------------------- user verifier: date checks
DaySeconds == 86400
YearDays == 365

\* timedelta.days of a difference in seconds: whole days, rounded down
WholeDays(seconds) == seconds \div DaySeconds

Abs(n) == IF n < 0 THEN -n ELSE n

\* a variant that holds the trial length and the duration to the minute
date_verification_issues_MinuteTolerance(in) ==
    IF AbsDiff(in.expire_date.t, in.start_date.t + DaySeconds *
               (IF in.check_trial_period /\ in.trial_duration_days # 0
                THEN in.trial_duration_days ELSE YearDays)) > ToleranceSeconds
    THEN {"length"} ELSE {}

\* the date block of UserVerifier.verify_from_user_api: the issues it appends
date_verification_issues(in) ==
    IF ~(Parses(in.start_date) /\ Parses(in.expire_date))
    THEN {"Date parsing error"}
    ELSE LET start_issue ==
                 IF in.action_type = "advance_time" \/ in.state_days_advanced > 0
                 THEN IF Truthy(in.state_prev_expire_date) /\ in.state_days_advanced > 0
                      THEN IF AbsDiff(in.start_date.t, in.state_prev_expire_date.t)
                                  > ToleranceSeconds
                           THEN {"Start date mismatch after time advance"} ELSE {}
                      ELSE {}
                 ELSE IF in.now - in.start_date.t < 0
                         \/ in.now - in.start_date.t > RecentStartSeconds
                      THEN {"Start date seems incorrect"} ELSE {}
             length_issue ==
                 IF in.check_trial_period /\ in.trial_duration_days # 0
                 THEN LET expected_expire ==
                              in.start_date.t + DaySeconds * in.trial_duration_days
                          days_diff == Abs(WholeDays(in.expire_date.t - expected_expire))
                      IN  IF days_diff > 1 THEN {"Trial period mismatch"} ELSE {}
                 ELSE LET duration_days == WholeDays(in.expire_date.t - in.start_date.t)
                      IN  IF Abs(duration_days - YearDays) > 1
                          THEN {"Subscription duration seems incorrect"} ELSE {}
         IN  start_issue \cup length_issue

\* differences between the actual and the expected expire date, around the
\* minute and the day
ExpireOffsets ==
    {-DaySeconds - 1, -DaySeconds, -ToleranceSeconds - 1, 0, ToleranceSeconds,
     ToleranceSeconds + 1, DaySeconds, 2 * DaySeconds - 1, 2 * DaySeconds}

UserDateInputs ==
    {[fn |-> "user_dates", action_type |-> a, state_days_advanced |-> n,
      state_prev_expire_date |-> p, start_date |-> At(s), now |-> now,
      check_trial_period |-> ctp, trial_duration_days |-> td,
      expire_date |-> At(s + DaySeconds * len + off)] :
        a \in {"purchase", "advance_time"}, n \in {0, 1}, p \in {NoDate, At(0)},
        s \in {0, ToleranceSeconds, ToleranceSeconds + 1},
        now \in {0, RecentStartSeconds, RecentStartSeconds + ToleranceSeconds + 1},
        ctp \in BOOLEAN, td \in {0, DefaultTrialPeriodDays},
        len \in {DefaultTrialPeriodDays, YearDays}, off \in ExpireOffsets}

ApplyUserDateChecks ==
    /\ fn_pc = "input"
    /\ fn_in.fn = "user_dates"
    /\ fn_out' = [fn |-> "user_dates", issues |-> date_verification_issues(fn_in)]
    /\ fn_pc' = "done"
    /\ UNCHANGED <<exec_vars, calc_pc, calc_has_state, calc_state, calc_days, exp_out,
                   uv_out, fn_in, report_vars>>

\* the number of days the length check of the user verifier expects between
\* start and expire
ExpectedLengthDays(in) ==
    IF in.check_trial_period /\ in.trial_duration_days # 0
    THEN in.trial_duration_days ELSE YearDays

\* the seconds by which the actual expire date is after start + expected length
LengthDifference(in) ==
    in.expire_date.t - (in.start_date.t + DaySeconds * ExpectedLengthDays(in))

LengthIssues == {"Trial period mismatch", "Subscription duration seems incorrect"}

StartComparedToExpected(in) ==
    /\ in.action_type = "advance_time" \/ in.state_days_advanced > 0
    /\ Truthy(in.state_prev_expire_date)
    /\ in.state_days_advanced > 0

\* C26: every date comparison of the verifiers rejects a difference of more
\* than 60 seconds: the start against the expected start, and the trial-period
\* length and plan duration against the expected number of days.
C26_SixtySecondTolerance ==
    (fn_pc = "done" /\ fn_in.fn = "user_dates") =>
        /\ (StartComparedToExpected(fn_in)
            /\ AbsDiff(fn_in.start_date.t, fn_in.state_prev_expire_date.t) > ToleranceSeconds)
               => "Start date mismatch after time advance" \in fn_out.issues
        /\ Abs(LengthDifference(fn_in)) > ToleranceSeconds
               => fn_out.issues \cap LengthIssues # {}

\* C26 (amended): the comparisons of the actual start and expire date with the
\* expected ones accept exactly the differences of at most 60 seconds, in the
\* user verifier and in the admin verifier; the trial-period and plan-duration
\* checks of the user verifier count whole days with a one-day tolerance, and
\* accept an expire date from one day before to less than two days after start
\* plus the expected number of days.
C26_SixtySecondsForDatesOneDayForLengths ==
    /\ (fn_pc = "done" /\ fn_in.fn = "user_dates") =>
           /\ StartComparedToExpected(fn_in) =>
                  ("Start date mismatch after time advance" \in fn_out.issues
                   <=> AbsDiff(fn_in.start_date.t, fn_in.state_prev_expire_date.t)
                          > ToleranceSeconds)
           /\ fn_out.issues \cap LengthIssues = {}
                  <=> /\ -DaySeconds <= LengthDifference(fn_in)
                      /\ LengthDifference(fn_in) < 2 * DaySeconds
    /\ (fn_pc = "done" /\ fn_in.fn = "admin" /\ fn_out.result.has_checks) =>
           /\ (fn_in.adv /\ <<"start_date", TRUE>> \in fn_out.result.checks)
                  => AbsDiff(fn_in.start_date.t, fn_in.expected_start_date.t)
                         <= ToleranceSeconds
           /\ (fn_in.adv /\ <<"start_date", FALSE>> \in fn_out.result.checks)
                  => AbsDiff(fn_in.start_date.t, fn_in.expected_start_date.t)
                         > ToleranceSeconds
           /\ <<"expire_date", TRUE>> \in fn_out.result.checks
                  => AbsDiff(fn_in.expire_date.t, fn_in.expected_expire_date.t)
                         <= ToleranceSeconds
           /\ <<"expire_date", FALSE>> \in fn_out.result.checks
                  => AbsDiff(fn_in.expire_date.t, fn_in.expected_expire_date.t)
                         > ToleranceSeconds

\* C26 witness: a trial whose expire date is a full day late passes the
\* trial-period check
C26_Witness ==
    /\ fn_pc = "done"
    /\ fn_in.fn = "user_dates"
    /\ fn_in.check_trial_period
    /\ fn_in.trial_duration_days = DefaultTrialPeriodDays
    /\ LengthDifference(fn_in) = DaySeconds
    /\ fn_out.issues = {}

\* ------------------------------------------ purchase: the payment-service call
\* what requests.post to the checkout-automation service can do
PlaywrightReplies ==
    {"timeout", "exception", "non_200", "payment_succeeded", "payment_not_succeeded"}

\* ActionExecutor._complete_payment_via_playwright: the 'success' of its result
complete_payment_via_playwright(reply) == reply = "payment_succeeded"

PaymentInputs ==
    {[fn |-> "payment", expected_result |-> e, reply |-> r] :
        e \in ExpectedPaymentResults, r \in PlaywrightReplies}

\* _execute_purchase_action from Step 4 on: the payment-service call and the
\* comparison of its result with the card's expected result
ApplyPurchasePayment ==
    /\ fn_pc = "input"
    /\ fn_in.fn = "payment"
    /\ fn_out' = LET o == PurchaseOutcome("paid", fn_in.expected_result,
                                          complete_payment_via_playwright(fn_in.reply))
                 IN  [fn |-> "payment", outcome |-> o,
                      result |-> ActionResult("purchase", o, 0)]
    /\ fn_pc' = "done"
    /\ UNCHANGED <<exec_vars, calc_pc, calc_has_state, calc_state, calc_days, exp_out,
                   uv_out, fn_in, report_vars>>

\* C27: when the payment-completion call times out or answers with a status
\* other than 200, the purchase action returns success=False, whatever the
\* card's expected result.
C27_TransportFailureFailsPurchase ==
    (fn_pc = "done" /\ fn_in.fn = "payment" /\ fn_in.reply \in {"timeout", "non_200"})
        => ~fn_out.result.success

\* --------------------------------------------------- configuration errors
ImplementedActionTypes == {"purchase", "cancel", "reactivate", "advance_time", "verify"}

\* the outcome of an operation's checks of its configuration keys: whether it
\* raised, and whether a backend had been called by the end of the checks
Raised == [raised |-> TRUE, backend_called |-> FALSE]
Proceeds == [raised |-> FALSE, backend_called |-> FALSE]

\* a variant that looks the subscription type up only after the plans were fetched
execute_purchase_action_checks_LateLookup(subscription_known, card_known) ==
    IF ~subscription_known THEN [raised |-> TRUE, backend_called |-> TRUE]
    ELSE IF ~card_known THEN Raised
    ELSE Proceeds

\* ActionExecutor._execute_purchase_action up to its try block
execute_purchase_action_checks(subscription_known, card_known) ==
    IF ~subscription_known THEN Raised
    ELSE IF ~card_known THEN Raised
    ELSE Proceeds

\* ActionExecutor.execute_action: the validation of the name and the routing
execute_action_checks(action_known, action_type, subscription_known, card_known) ==
    IF ~action_known THEN Raised
    ELSE IF action_type = "purchase"
    THEN execute_purchase_action_checks(subscription_known, card_known)
    ELSE IF action_type \in ImplementedActionTypes THEN Proceeds
    ELSE Raised

\* self.subscriptions_config.get(subscription_type, {})
subscriptions_config_get(subscription_known, cfg) ==
    IF subscription_known THEN cfg ELSE EmptyConfig

ConfigInputs ==
    {[fn |-> "config", op |-> op, action_known |-> ak, action_type |-> a,
      subscription_known |-> sk, card_known |-> ck, cfg |-> cfg, eligible |-> el] :
        op \in {"execute_action", "purchase", "calculate_expected_status"},
        ak \in BOOLEAN, a \in ImplementedActionTypes \cup {"upgrade"}, sk \in BOOLEAN,
        ck \in BOOLEAN, el \in BOOLEAN,
        cfg \in {c \in FnConfigs : c.expected_status_with_trial = 3
                                    /\ c.expected_status_without_trial = 1}}

\* the three operations that receive configuration keys; calculate_expected_status
\* is called without subscription_config and without a state
ApplyConfigLookup ==
    /\ fn_pc = "input"
    /\ fn_in.fn = "config"
    /\ fn_out' =
           CASE fn_in.op = "execute_action" ->
                    [fn |-> "config",
                     checks |-> execute_action_checks(fn_in.action_known, fn_in.action_type,
                                                      fn_in.subscription_known,
                                                      fn_in.card_known),
                     exp |-> NoExpectation]
             [] fn_in.op = "purchase" ->
                    [fn |-> "config",
                     checks |-> execute_purchase_action_checks(fn_in.subscription_known,
                                                               fn_in.card_known),
                     exp |-> NoExpectation]
             [] OTHER ->
                    [fn |-> "config",
                     checks |-> Proceeds,
                     exp |-> calculate_expected_status(
                                 fn_in.action_type, FALSE, FreshState,
                                 subscriptions_config_get(fn_in.subscription_known,
                                                          fn_in.cfg),
                                 fn_in.eligible)]
    /\ fn_pc' = "done"
    /\ UNCHANGED <<exec_vars, calc_pc, calc_has_state, calc_state, calc_days, exp_out,
                   uv_out, fn_in, report_vars>>

\* the operation received a key its configuration does not have
UnknownKeyReceived(in) ==
    \/ in.op = "execute_action" /\ ~in.action_known
    \/ in.op = "execute_action" /\ in.action_type = "purchase" /\ ~in.subscription_known
    \/ in.op = "purchase" /\ ~in.subscription_known
    \/ in.op = "calculate_expected_status" /\ ~in.subscription_known

\* C28: execute_action, the purchase handler and calculate_expected_status raise
\* on an unknown action name or subscription-type key before any backend call.
C28_UnknownKeysRaise ==
    (fn_pc = "done" /\ fn_in.fn = "config" /\ UnknownKeyReceived(fn_in)) =>
        (fn_out.checks.raised /\ ~fn_out.checks.backend_called)

\* C28 (amended): execute_action raises on an unknown action name, and the
\* purchase handler on an unknown subscription-type key, before any backend
\* call; calculate_expected_status does not raise on an unknown subscription-type
\* key: it takes an empty configuration and, for purchase and reactivate,
\* returns the default expectation 1 'active' without a trial check.
C28_UnknownKeysRaiseExceptInExpectedStatus ==
    (fn_pc = "done" /\ fn_in.fn = "config" /\ UnknownKeyReceived(fn_in)) =>
        IF fn_in.op = "calculate_expected_status"
        THEN /\ ~fn_out.checks.raised
             /\ fn_in.action_type \in {"purchase", "reactivate"} =>
                    /\ fn_out.exp.expected_status_code = 1
                    /\ fn_out.exp.expected_status_name = "active"
                    /\ ~fn_out.exp.check_trial_period
        ELSE fn_out.checks.raised /\ ~fn_out.checks.backend_called

\* C28 witness: a purchase action whose subscription type is not configured
C28_Witness ==
    /\ fn_pc = "done"
    /\ fn_in.fn = "config"
    /\ fn_in.op = "execute_action"
    /\ fn_in.action_known
    /\ fn_in.action_type = "purchase"
    /\ ~fn_in.subscription_known
    /\ fn_out.checks = Raised

\* --------------------------------------------------- advance_time action
\* what the operator types at "How many days did you actually advance?":
\* nothing, something that is not an integer, or an integer
Blank == [kind |-> "blank", n |-> 0]
Text == [kind |-> "text", n |-> 0]
Number(n) == [kind |-> "int", n |-> n]

OperatorEntries == {Blank, Text} \cup {Number(n) : n \in -1..MaxAdvance}

\* the "while True" loop of _execute_advance_time_action over the entries typed
\* so far: the accepted number of days, or 0 while it is still asking
RECURSIVE actual_days_advanced(_, _)
actual_days_advanced(entries, days_to_advance) ==
    IF entries = <<>> THEN 0
    ELSE LET e == Head(entries)
         IN  IF e.kind = "blank" THEN days_to_advance
             ELSE IF e.kind = "int" /\ e.n > 0 THEN e.n
             ELSE actual_days_advanced(Tail(entries), days_to_advance)

\* a variant that reports the requested number of days
execute_advance_time_action_Requested(param, api_ok, entries) ==
    IF param <= 0 \/ ~api_ok THEN NoActionResult @@ [returned |-> TRUE]
    ELSE IF actual_days_advanced(entries, param) = 0
    THEN NoActionResult @@ [returned |-> FALSE]
    ELSE [success |-> TRUE, has_subscription_type |-> FALSE, days_advanced |-> param,
          returned |-> TRUE]

\* ActionExecutor._execute_advance_time_action; param is the 'days' parameter
\* (0: absent or not a positive integer), api_ok whether the membership API
\* calls before the prompt succeed
execute_advance_time_action(param, api_ok, entries) ==
    IF param <= 0 \/ ~api_ok
    THEN NoActionResult @@ [returned |-> TRUE]
    ELSE LET actual == actual_days_advanced(entries, param)
         IN  IF actual = 0
             THEN \* still waiting for a valid entry
                  NoActionResult @@ [returned |-> FALSE]
             ELSE [success |-> TRUE, has_subscription_type |-> FALSE,
                   days_advanced |-> actual, returned |-> TRUE]

AdvanceInputs ==
    {[fn |-> "advance", param |-> p, api_ok |-> ok, entries |-> es, prior_days |-> d] :
        p \in 0..MaxAdvance, ok \in BOOLEAN, d \in 0..MaxAdvance,
        es \in {<<a>> : a \in OperatorEntries}
               \cup {<<a, b>> : a \in {Text, Number(0), Number(-1)}, b \in OperatorEntries}}

\* the action and, when it returns, the orchestrator's update of the tracked state
ApplyAdvanceTime ==
    /\ fn_pc = "input"
    /\ fn_in.fn = "advance"
    /\ fn_out' =
           LET ar == execute_advance_time_action(fn_in.param, fn_in.api_ok, fn_in.entries)
               before == [FreshState EXCEPT !.days_advanced = fn_in.prior_days]
           IN  [fn |-> "advance", result |-> ar,
                state |-> IF ar.returned
                          THEN UpdateStateFromAction(before, "advance_time", ar)
                          ELSE before]
    /\ fn_pc' = "done"
    /\ UNCHANGED <<exec_vars, calc_pc, calc_has_state, calc_state, calc_days, exp_out,
                   uv_out, fn_in, report_vars>>

\* the first entry the prompt accepts
AcceptedEntry(entries) ==
    LET ok == {i \in 1..Len(entries) :
                   entries[i].kind = "blank" \/ (entries[i].kind = "int" /\ entries[i].n > 0)}
    IN  entries[CHOOSE i \in ok : \A j \in ok : i <= j]

\* C29: a successful advance_time action returns as days_advanced the positive
\* number the operator entered, or the requested days when the operator entered
\* nothing, and the orchestrator adds that value, not the requested one, to the
\* cumulative days_advanced.
C29_OperatorDaysAreAdded ==
    (fn_pc = "done" /\ fn_in.fn = "advance" /\ fn_out.result.success) =>
        LET e == AcceptedEntry(fn_in.entries)
            entered == IF e.kind = "blank" THEN fn_in.param ELSE e.n
        IN  /\ entered > 0
            /\ fn_out.result.days_advanced = entered
            /\ fn_out.state.days_advanced = fn_in.prior_days + entered

\* C29 witness: the operator advanced fewer days than requested, after a first
\* entry that was refused
C29_Witness ==
    /\ fn_pc = "done"
    /\ fn_in.fn = "advance"
    /\ fn_in.param = 3
    /\ fn_in.prior_days = 2
    /\ fn_in.entries = <<Number(0), Number(1)>>
    /\ fn_out.result.success
    /\ fn_out.result.days_advanced = 1
    /\ fn_out.state.days_advanced = 3

\* ------------------------------------------- function harness: specification
InitFn ==
    /\ IdleExecutor
    /\ IdleReports
    /\ fn_pc = "input"
    /\ \/ fn_in \in StatusInputs
       \/ fn_in \in DatesInputs
       \/ fn_in \in DurationInputs
       \/ fn_in \in PurchaseInputs
       \/ fn_in \in ScenarioInputs
       \/ fn_in \in VerifyInputs
       \/ fn_in \in SameStateInputs
       \/ fn_in \in AdminInputs
       \/ fn_in \in SelectInputs
       \/ fn_in \in StateInputs
       \/ fn_in \in UserDateInputs
       \/ fn_in \in PaymentInputs
       \/ fn_in \in ConfigInputs
       \/ fn_in \in AdvanceInputs
    /\ fn_out = NoCall

NextFn ==
    \/ ApplyExpectedStatus
    \/ ApplyExpectedDates
    \/ ApplyAddDuration
    \/ ApplyPurchase
    \/ ApplyScenario
    \/ ApplyVerifyFromUserApi
    \/ ApplyVerifyStatesAreSame
    \/ ApplyVerifyFromAdminApi
    \/ ApplySelectSubscription
    \/ ApplyGetCurrentState
    \/ ApplyUserDateChecks
    \/ ApplyPurchasePayment
    \/ ApplyConfigLookup
    \/ ApplyAdvanceTime

SpecFn == InitFn /\ [][NextFn]_vars

\* ------------------------------------------------------------------ XrayApi
\* class UpdateStrategy
UpdateStrategies == {"PASS_WINS", "FAIL_WINS", "LAST_WINS"}

\* the test_results arguments: every dict from some of the test keys to
\* "PASSED" or "FAILED"
ResultDicts == [TestKeys -> {"absent", "PASSED", "FAILED"}]

\* d1 updated with the entries of d2
DictUpdate(d1, d2) == [k \in TestKeys |-> IF d2[k] # "absent" THEN d2[k] ELSE d1[k]]

\* a variant in which PASS_WINS lets FAILED replace PASSED
should_update_test_result_FailOverPass(strategy, cache, test_key, new_status) ==
    LET current_status == cache[test_key]
    IN  IF strategy = "LAST_WINS" THEN TRUE
        ELSE IF current_status = "absent" THEN TRUE
        ELSE IF current_status = "TODO" THEN TRUE
        ELSE IF strategy = "PASS_WINS"
             THEN IF current_status = "PASSED" THEN new_status = "FAILED"
                  ELSE IF current_status = "FAILED" THEN new_status = "PASSED"
                  ELSE TRUE
        ELSE IF strategy = "FAIL_WINS"
             THEN IF current_status = "FAILED" THEN FALSE
                  ELSE IF current_status = "PASSED" THEN new_status = "FAILED"
                  ELSE TRUE
        ELSE TRUE

\* XrayApi._should_update_test_result: the should_update component
should_update_test_result(strategy, cache, test_key, new_status) ==
    LET current_status == cache[test_key]
    IN  IF strategy = "LAST_WINS" THEN TRUE
        ELSE IF current_status = "absent" THEN TRUE
        ELSE IF current_status = "TODO" THEN TRUE
        ELSE IF strategy = "PASS_WINS"
             THEN IF current_status = "PASSED" THEN FALSE
                  ELSE IF current_status = "FAILED" THEN new_status = "PASSED"
                  ELSE TRUE
        ELSE IF strategy = "FAIL_WINS"
             THEN IF current_status = "FAILED" THEN FALSE
                  ELSE IF current_status = "PASSED" THEN new_status = "FAILED"
                  ELSE TRUE
        ELSE TRUE

\* XrayApi.update_test_run_status(test_results): the cache afterwards, the dict
\* handed to _update_test_run_status_api (NoResults: no request) and the value
\* returned; api_ok is whether the request is answered with 200
update_test_run_status(strategy, has_key, cache, test_results, api_ok) ==
    LET tests_to_update ==
            [k \in TestKeys |->
                IF /\ test_results[k] # "absent"
                   /\ should_update_test_result(strategy, cache, k, test_results[k])
                THEN test_results[k] ELSE "absent"]
    IN  IF ~has_key
        THEN [cache |-> cache, sent |-> NoResults, returned |-> FALSE]
        ELSE IF test_results = NoResults
        THEN [cache |-> cache, sent |-> NoResults, returned |-> TRUE]
        ELSE IF strategy = "LAST_WINS"
        THEN [cache |-> cache, sent |-> test_results, returned |-> api_ok]
        ELSE IF tests_to_update = NoResults
        THEN [cache |-> DictUpdate(cache, tests_to_update), sent |-> NoResults,
              returned |-> TRUE]
        ELSE [cache |-> DictUpdate(cache, tests_to_update), sent |-> tests_to_update,
              returned |-> api_ok]

\* XrayApi.set_update_strategy(strategy)
SetUpdateStrategy ==
    /\ report_pc = "xray"
    /\ \E strategy \in UpdateStrategies :
         /\ update_strategy' = strategy
         /\ last_call' = [NoXrayCall EXCEPT !.op = "set_update_strategy"]
    /\ UNCHANGED <<exec_vars, calc_pc, calc_has_state, calc_state, calc_days, exp_out,
                   uv_out, fn_vars, report_pc, execution_key, test_results_cache,
                   xray_runs, tracker_vars>>

\* XrayApi.create_test_execution(test_ids, test_plan_key) answered with 200: the
\* execution exists with every test in TODO, and the cache gets a TODO entry
\* for each test id it does not hold unless the strategy is LAST_WINS
CreateTestExecution ==
    /\ report_pc = "xray"
    /\ ~execution_key
    /\ execution_key' = TRUE
    /\ test_results_cache' =
           IF update_strategy # "LAST_WINS"
           THEN [k \in TestKeys |-> IF test_results_cache[k] = "absent" THEN "TODO"
                                     ELSE test_results_cache[k]]
           ELSE test_results_cache
    /\ xray_runs' = [k \in TestKeys |-> "TODO"]
    /\ last_call' = [NoXrayCall EXCEPT !.op = "create_test_execution"]
    /\ UNCHANGED <<exec_vars, calc_pc, calc_has_state, calc_state, calc_days, exp_out,
                   uv_out, fn_vars, report_pc, update_strategy, tracker_vars>>

\* XrayApi.clear_test_results_cache()
ClearTestResultsCache ==
    /\ report_pc = "xray"
    /\ test_results_cache' = NoResults
    /\ last_call' = [NoXrayCall EXCEPT !.op = "clear_test_results_cache"]
    /\ UNCHANGED <<exec_vars, calc_pc, calc_has_state, calc_state, calc_days, exp_out,
                   uv_out, fn_vars, report_pc, update_strategy, execution_key, xray_runs,
                   tracker_vars>>

\* XrayApi.update_test_run_status(test_results), the request of
\* _update_test_run_status_api included
UpdateTestRunStatus ==
    /\ report_pc = "xray"
    /\ \E test_results \in ResultDicts, api_ok \in BOOLEAN :
         LET r == update_test_run_status(update_strategy, execution_key,
                                         test_results_cache, test_results, api_ok)
         IN  /\ test_results_cache' = r.cache
             /\ xray_runs' = IF r.returned THEN DictUpdate(xray_runs, r.sent) ELSE xray_runs
             /\ last_call' = [op |-> "update_test_run_status", results |-> test_results,
                              sent |-> r.sent, returned |-> r.returned]
    /\ UNCHANGED <<exec_vars, calc_pc, calc_has_state, calc_state, calc_days, exp_out,
                   uv_out, fn_vars, report_pc, update_strategy, execution_key,
                   tracker_vars>>

InitXray ==
    /\ IdleExecutor
    /\ fn_pc = "idle"
    /\ fn_in = NoCall
    /\ fn_out = NoCall
    /\ report_pc = "xray"
    /\ IdleXray
    /\ IdleTracker

NextXray ==
    \/ SetUpdateStrategy
    \/ CreateTestExecution
    \/ ClearTestResultsCache
    \/ UpdateTestRunStatus

SpecXray == InitXray /\ [][NextXray]_vars

\* C37: a call of update_test_run_status under PASS_WINS leaves a recorded
\* PASSED as it is and sends no FAILED for that test key; under FAIL_WINS it
\* leaves a recorded FAILED as it is and sends no PASSED for it; under
\* LAST_WINS, with an execution at hand, it sends every result it was given,
\* which becomes the status of the test run when the request succeeds.
C37_StrategyGuardsRecordedResult ==
    [][last_call'.op = "update_test_run_status" =>
         /\ \A k \in TestKeys :
              /\ (update_strategy = "PASS_WINS" /\ test_results_cache[k] = "PASSED") =>
                     /\ test_results_cache'[k] = "PASSED"
                     /\ last_call'.sent[k] = "absent"
                     /\ xray_runs'[k] = xray_runs[k]
              /\ (update_strategy = "FAIL_WINS" /\ test_results_cache[k] = "FAILED") =>
                     /\ test_results_cache'[k] = "FAILED"
                     /\ last_call'.sent[k] = "absent"
                     /\ xray_runs'[k] = xray_runs[k]
         /\ (update_strategy = "LAST_WINS" /\ execution_key) =>
                /\ last_call'.sent = last_call'.results
                /\ last_call'.returned =>
                       \A k \in TestKeys :
                           last_call'.results[k] # "absent" =>
                               xray_runs'[k] = last_call'.results[k]]_vars

\* C37 witness: under PASS_WINS a FAILED result arrives for a test key recorded
\* and reported as PASSED, together with a first result for the other key, which
\* alone is sent
C37_Witness ==
    /\ update_strategy = "PASS_WINS"
    /\ last_call.op = "update_test_run_status"
    /\ last_call.results["RQA-1"] = "FAILED"
    /\ last_call.sent["RQA-1"] = "absent"
    /\ last_call.sent["RQA-2"] = "FAILED"
    /\ last_call.returned
    /\ test_results_cache["RQA-1"] = "PASSED"
    /\ xray_runs["RQA-1"] = "PASSED"
    /\ xray_runs["RQA-2"] = "FAILED"

\* ---------------------------------------------------------- XRayStepTracker
\* the tracker's fields a call reads and writes
Tracker(s, pending, results) ==
    [steps |-> s, has_pending_substeps |-> pending, xray_test_results |-> results]

\* TestStepInfo(step_number, description, result=PENDING, xray_tests)
TestStepInfo(step_number, xray_tests) ==
    [step_number |-> step_number, result |-> "PENDING", xray_tests |-> xray_tests,
     sub_steps |-> << >>]

\* the xray_tests arguments of step: no key, one key
XrayTestLists == {{}, {"RQA-1"}}

\* self.steps with its last element replaced
WithLast(s, step_info) == [s EXCEPT ![Len(s)] = step_info]

\* XRayStepTracker._update_xray_test_results
update_xray_test_results(results, step_info) ==
    [k \in TestKeys |->
        IF k \in step_info.xray_tests /\ step_info.result \in {"FAILED", "PASSED"}
        THEN step_info.result ELSE results[k]]

\* XRayStepTracker._conclude_previous_step
conclude_previous_step(t) ==
    IF t.steps = << >> THEN t
    ELSE LET current_step == t.steps[Len(t.steps)]
         IN  IF current_step.sub_steps = << >> THEN t
             ELSE LET all_passed == \A i \in 1..Len(current_step.sub_steps) :
                                        current_step.sub_steps[i] = "PASSED"
                      concluded == [current_step EXCEPT
                                        !.result = IF all_passed THEN "PASSED" ELSE "FAILED"]
                  IN  Tracker(WithLast(t.steps, concluded), FALSE,
                              update_xray_test_results(t.xray_test_results, concluded))

\* XRayStepTracker.pass_step (outcome = "PASSED") and fail_step ("FAILED")
conclude_step(t, outcome) ==
    IF t.steps = << >> THEN t
    ELSE LET t1 == IF t.has_pending_substeps THEN conclude_previous_step(t) ELSE t
             current_step == [t1.steps[Len(t1.steps)] EXCEPT !.result = outcome]
         IN  Tracker(WithLast(t1.steps, current_step), t1.has_pending_substeps,
                     update_xray_test_results(t1.xray_test_results, current_step))

\* XRayStepTracker.pass_substep (outcome = "PASSED") and fail_substep ("FAILED")
add_substep(t, outcome) ==
    IF t.steps = << >> THEN t
    ELSE LET current_step == t.steps[Len(t.steps)]
         IN  Tracker(WithLast(t.steps, [current_step EXCEPT
                                            !.sub_steps = Append(@, outcome)]),
                     TRUE, t.xray_test_results)

\* the tracker as the variables hold it
TrackerNow == Tracker(steps, has_pending_substeps, xray_test_results)

\* the variables take the fields of t
TrackerBecomes(t) ==
    /\ steps' = t.steps
    /\ has_pending_substeps' = t.has_pending_substeps
    /\ xray_test_results' = t.xray_test_results

\* room for one more sub-step on the current step
SubStepRoom ==
    IF steps = << >> THEN TRUE ELSE Len(steps[Len(steps)].sub_steps) < MaxSubSteps

\* XRayStepTracker.step(step_number, description, xray_tests), numbered in sequence
StartStep ==
    /\ report_pc = "tracker"
    /\ Len(steps) < MaxSteps
    /\ \E xray_tests \in XrayTestLists :
         LET t == IF has_pending_substeps THEN conclude_previous_step(TrackerNow)
                  ELSE TrackerNow
             step_number == Len(steps) + 1
         IN  /\ TrackerBecomes(Tracker(Append(t.steps, TestStepInfo(step_number, xray_tests)),
                                       t.has_pending_substeps, t.xray_test_results))
             /\ current_step_number' = step_number
    /\ UNCHANGED <<exec_vars, calc_pc, calc_has_state, calc_state, calc_days, exp_out,
                   uv_out, fn_vars, report_pc, xray_vars, summary>>

\* XRayStepTracker.pass_step
PassStep ==
    /\ report_pc = "tracker"
    /\ TrackerBecomes(conclude_step(TrackerNow, "PASSED"))
    /\ UNCHANGED <<exec_vars, calc_pc, calc_has_state, calc_state, calc_days, exp_out,
                   uv_out, fn_vars, report_pc, xray_vars, current_step_number, summary>>

\* XRayStepTracker.fail_step
FailStep ==
    /\ report_pc = "tracker"
    /\ TrackerBecomes(conclude_step(TrackerNow, "FAILED"))
    /\ UNCHANGED <<exec_vars, calc_pc, calc_has_state, calc_state, calc_days, exp_out,
                   uv_out, fn_vars, report_pc, xray_vars, current_step_number, summary>>

\* XRayStepTracker.pass_substep
PassSubstep ==
    /\ report_pc = "tracker"
    /\ SubStepRoom
    /\ TrackerBecomes(add_substep(TrackerNow, "PASSED"))
    /\ UNCHANGED <<exec_vars, calc_pc, calc_has_state, calc_state, calc_days, exp_out,
                   uv_out, fn_vars, report_pc, xray_vars, current_step_number, summary>>

\* XRayStepTracker.fail_substep
FailSubstep ==
    /\ report_pc = "tracker"
    /\ SubStepRoom
    /\ TrackerBecomes(add_substep(TrackerNow, "FAILED"))
    /\ UNCHANGED <<exec_vars, calc_pc, calc_has_state, calc_state, calc_days, exp_out,
                   uv_out, fn_vars, report_pc, xray_vars, current_step_number, summary>>

\* XRayStepTracker.summarize_results: "assert" when get_failed_steps() is not empty
SummarizeResults ==
    /\ report_pc = "tracker"
    /\ LET t == IF has_pending_substeps THEN conclude_previous_step(TrackerNow)
                ELSE TrackerNow
           failed_steps == {i \in 1..Len(t.steps) : t.steps[i].result = "FAILED"}
       IN  /\ TrackerBecomes(t)
           /\ summary' = IF failed_steps # {} THEN "assert" ELSE "ok"
    /\ UNCHANGED <<exec_vars, calc_pc, calc_has_state, calc_state, calc_days, exp_out,
                   uv_out, fn_vars, report_pc, xray_vars, current_step_number>>

InitTracker ==
    /\ IdleExecutor
    /\ fn_pc = "idle"
    /\ fn_in = NoCall
    /\ fn_out = NoCall
    /\ report_pc = "tracker"
    /\ IdleXray
    /\ IdleTracker

NextTracker ==
    \/ StartStep
    \/ PassStep
    \/ FailStep
    \/ PassSubstep
    \/ FailSubstep
    \/ SummarizeResults

SpecTracker == InitTracker /\ [][NextTracker]_vars

\* step i has a failed sub-step
HasFailedSubStep(i) ==
    \E j \in 1..Len(steps[i].sub_steps) : steps[i].sub_steps[j] = "FAILED"

\* step i is concluded for good: a later step was started, or it is the
\* current step and none of its sub-steps is pending
Concluded(i) == i < Len(steps) \/ ~has_pending_substeps

\* C38 as stated: a step with a failed sub-step is never finally reported
\* PASSED, the test run is not summarized as passed with such a step, and an
\* XRay test linked to the current step is not PASSED once that step, having
\* a failed sub-step, is concluded.
C38_FailedSubStepNeverPassed ==
    \A i \in 1..Len(steps) :
        (HasFailedSubStep(i) /\ Concluded(i)) =>
            /\ steps[i].result # "PASSED"
            /\ i = Len(steps) =>
                   \A k \in steps[i].xray_tests : xray_test_results[k] # "PASSED"

====
